---- MODULE Spec2Model ----
(***************************************************************************)
(* A model of lfs-utils (src/src/lfsutils/lib.py): the MigrateResult       *)
(* record and the migrate_file workflow of class LfsUtils, the index codec *)
(* (to_ost_hex, create_rangeset_from_hex), the output parsers, the         *)
(* topology lookups and the write probe.                                   *)
(*                                                                         *)
(* Python values are records tagged by their type, so that values of       *)
(* different types can be compared the way Python compares them:           *)
(*   None            [k |-> "None"]                                        *)
(*   int n           [k |-> "int", i |-> n]                                *)
(*   str s           [k |-> "str", s |-> s]                                *)
(*   timedelta       [k |-> "timedelta", secs |-> n]                       *)
(***************************************************************************)
EXTENDS Integers, Sequences, FiniteSets, TLC

VARIABLES
    \* ---- MigrateResult.__init__ (one construction at a time)
    mr_args,        \* the arguments of the last construction, or NoArgs
    mr_out,         \* what the construction did: the object or the exception
    \* ---- LfsUtils.migrate_file (one call at a time)
    pc,             \* position of the call: idle, pre_query, migrate, post_query, done
    call,           \* the arguments of the running call
    calls,          \* the external commands invoked by the running call, in order
    pre_stripe_info,\* local pre_stripe_info
    pre_ost_idx,    \* local pre_ost_idx
    post_ost_idx,   \* local post_ost_idx
    mig_out,        \* how the call ended: the MigrateResult returned or the exception
    \* ---- the codec functions and the parsers (one call at a time)
    q_op,           \* the function called, or "none"
    q_in,           \* its arguments and the tool output it read
    q_out,          \* what it returned or raised
    \* ---- the bulk topology lookups (a sequence of calls)
    t_log,          \* the lctl invocations made so far, in order
    t_calls,        \* the completed lookups: arguments, environment and outcome
    \* ---- the filesystem the write probe works on
    files           \* the paths that exist

vars == <<mr_args, mr_out, pc, call, calls, pre_stripe_info, pre_ost_idx,
          post_ost_idx, mig_out, q_op, q_in, q_out, t_log, t_calls, files>>

(***************************************************************************)
(* Bounds of the model.                                                    *)
(***************************************************************************)
MaxSmallIdx == 1     \* small OST indices 0..MaxSmallIdx are sampled
MaxCount    == 2     \* stripe counts 0..MaxCount are sampled
MaxElapsed  == 1     \* elapsed times 0..MaxElapsed seconds are sampled

(***************************************************************************)
(* Program constants.                                                      *)
(***************************************************************************)
MIN_OST_INDEX == 0
MAX_OST_INDEX == 65535
TestElapsed   == 73   \* timedelta(minutes=1, seconds=13) of the unit tests

(***************************************************************************)
(* Python values.                                                          *)
(***************************************************************************)
None      == [k |-> "None"]
PyInt(n)  == [k |-> "int", i |-> n]
PyStr(x)  == [k |-> "str", s |-> x]
PyTimedelta(n) == [k |-> "timedelta", secs |-> n]

\* Truthy with a test for None in place of Python truthiness: '' passes.
Truthy_NoneOnly(x) == x.k # "None"

\* Python truthiness of None / str / int ("not x" is ~Truthy(x)).
Truthy(x) ==
    CASE x.k = "None" -> FALSE
      [] x.k = "str"  -> x.s # ""
      [] x.k = "int"  -> x.i # 0
      [] OTHER        -> TRUE

isinstance(x, type_) == x.k = type_

\* An exception raised, and a value returned.
Raise(exc, msg) == [kind |-> "raised", exc |-> exc, msg |-> msg]
Return(v)       == [kind |-> "returned", value |-> v]

\* str(int): TLC's ToString is the decimal rendering Python's str(int) gives.
IntStr(n) == ToString(n)

Pad2(n) == IF n < 10 THEN "0" \o ToString(n) ELSE ToString(n)

\* str(timedelta) for a whole number of seconds below one day: H:MM:SS.
TimedeltaStr(td) ==
    ToString(td.secs \div 3600) \o ":" \o Pad2((td.secs \div 60) % 60)
        \o ":" \o Pad2(td.secs % 60)

\* conv_obj rendering None the way str(None) does.
conv_obj_StrNone(arg) ==
    IF isinstance(arg, "None") THEN Return("None")
    ELSE IF isinstance(arg, "str") THEN Return(arg.s)
    ELSE IF isinstance(arg, "int") THEN Return(IntStr(arg.i))
    ELSE Raise("TypeError", "Argument type not supported")

\* conv_obj: None -> '', str -> itself, int -> str(int); TypeError otherwise.
conv_obj(arg) ==
    IF isinstance(arg, "None") THEN Return("")
    ELSE IF isinstance(arg, "str") THEN Return(arg.s)
    ELSE IF isinstance(arg, "int") THEN Return(IntStr(arg.i))
    ELSE Raise("TypeError", "Argument type not supported")

\* The text of an f-string "{a}|{b}|...": the fields joined by '|'.
RECURSIVE JoinBar(_)
JoinBar(fields) ==
    IF Len(fields) = 0 THEN ""
    ELSE IF Len(fields) = 1 THEN fields[1]
    ELSE fields[1] \o "|" \o JoinBar(Tail(fields))

(***************************************************************************)
(* MigrateState and MigrateResult.                                         *)
(***************************************************************************)
DISPLACED == "DISPLACED"
IGNORED   == "IGNORED"
SKIPPED   == "SKIPPED"
SUCCESS   == "SUCCESS"
FAILED    == "FAILED"
MigrateState == {DISPLACED, IGNORED, SKIPPED, SUCCESS, FAILED}

\* A constructed MigrateResult: the interpolated fields and the text _result.
ResultOf(fields) == Return([fields |-> fields, text |-> JoinBar(fields)])

\* The five-field form shared by DISPLACED and SUCCESS, and FAILED's six.
IndexedResult(state, filename, time_elapsed, source_idx, target_idx, tail) ==
    LET s == conv_obj(source_idx)
        t == conv_obj(target_idx)
    IN  IF s.kind = "raised" THEN s
        ELSE IF t.kind = "raised" THEN t
        ELSE ResultOf(<<state, filename.s, TimedeltaStr(time_elapsed),
                        s.value, t.value>> \o tail)

\* MigrateResult.__init__: state is None or a str (a MigrateState member
\* compares equal to its value), the other arguments are Python values.
MigrateResult(state, filename, time_elapsed, source_idx, target_idx, error_msg) ==
    IF ~Truthy(filename) \/ ~isinstance(filename, "str")
    THEN Raise("LfsUtilsError", "Filename must be set and type of str")
    ELSE IF ~isinstance(time_elapsed, "timedelta")
    THEN Raise("LfsUtilsError", "Time elapsed must be type of datetime.timedelta")
    ELSE IF state = PyStr(DISPLACED)
    THEN IndexedResult(DISPLACED, filename, time_elapsed, source_idx, target_idx, <<>>)
    ELSE IF state = PyStr(FAILED)
    THEN IF ~Truthy(error_msg)
         THEN Raise("LfsUtilsError", "State FAILED requires error_msg to be set.")
         ELSE IndexedResult(FAILED, filename, time_elapsed, source_idx, target_idx,
                            <<error_msg.s>>)
    ELSE IF state = PyStr(IGNORED)
    THEN ResultOf(<<IGNORED, filename.s>>)
    ELSE IF state = PyStr(SKIPPED)
    THEN ResultOf(<<SKIPPED, filename.s>>)
    ELSE IF state = PyStr(SUCCESS)
    THEN IndexedResult(SUCCESS, filename, time_elapsed, source_idx, target_idx, <<>>)
    ELSE Raise("LfsUtilsError", "Invalid state")

(***************************************************************************)
(* Sampled inputs.                                                         *)
(***************************************************************************)
TestFilename == "test.tmp"
TestErrorMsg == "An error occured."

SmallIdx  == 0..MaxSmallIdx
\* Indices a caller may pass: small ones and both boundaries with neighbours.
CallerIdx == SmallIdx \cup {MIN_OST_INDEX - 1, MAX_OST_INDEX, MAX_OST_INDEX + 1}
Elapsed   == (0..MaxElapsed) \cup {TestElapsed}

MRStates    == {PyStr(s) : s \in MigrateState} \cup {None, PyStr("BOGUS")}
MRFilenames == {None, PyStr(""), PyStr(TestFilename)}
MRTimes     == {None} \cup {PyTimedelta(n) : n \in Elapsed}
MRIdx       == {None} \cup {PyInt(n) : n \in SmallIdx \cup {MAX_OST_INDEX}}
MRErrorMsgs == {None, PyStr(""), PyStr(TestErrorMsg)}

NoArgs == [k |-> "None"]

MRArgs(state, filename, time_elapsed, source_idx, target_idx, error_msg) ==
    [state |-> state, filename |-> filename, time_elapsed |-> time_elapsed,
     source_idx |-> source_idx, target_idx |-> target_idx, error_msg |-> error_msg]

MigrateInitVars ==
    /\ pc = "idle"
    /\ call = NoArgs
    /\ calls = <<>>
    /\ pre_stripe_info = None
    /\ pre_ost_idx = None
    /\ post_ost_idx = None
    /\ mig_out = None

ResultInitVars ==
    /\ mr_args = NoArgs
    /\ mr_out = None

QueryInitVars ==
    /\ q_op = "none"
    /\ q_in = NoArgs
    /\ q_out = None

TopologyInitVars ==
    /\ t_log = <<>>
    /\ t_calls = <<>>

ProbeInitVars ==
    /\ files = {}

Init ==
    /\ MigrateInitVars /\ ResultInitVars /\ QueryInitVars /\ TopologyInitVars
    /\ ProbeInitVars

migrateVars  == <<pc, call, calls, pre_stripe_info, pre_ost_idx, post_ost_idx, mig_out>>
resultVars   == <<mr_args, mr_out>>
queryVars    == <<q_op, q_in, q_out>>
topologyVars == <<t_log, t_calls>>
probeVars    == <<files>>

(***************************************************************************)
(* SpecResult: constructions of MigrateResult.                             *)
(***************************************************************************)
Construct ==
    /\ mr_args = NoArgs
    /\ \E state \in MRStates, filename \in MRFilenames, time_elapsed \in MRTimes,
          source_idx \in MRIdx, target_idx \in MRIdx, error_msg \in MRErrorMsgs :
          /\ mr_args' = MRArgs(state, filename, time_elapsed, source_idx,
                               target_idx, error_msg)
          /\ mr_out' = MigrateResult(state, filename, time_elapsed, source_idx,
                                     target_idx, error_msg)
          /\ UNCHANGED <<migrateVars, queryVars, topologyVars, probeVars>>

NextResult == Construct

SpecResult == Init /\ [][NextResult]_vars

(***************************************************************************)
(* The external tool.  What one invocation of lfs did: its exit status,    *)
(* its stderr text and, for getstripe, the YAML document on stdout as      *)
(* yaml.safe_load reads it: None for empty output, else a mapping.         *)
(***************************************************************************)
LMM_STRIPE_COUNT  == "lmm_stripe_count"
LMM_STRIPE_OFFSET == "lmm_stripe_offset"

ToolErrorText == "lfs: No such file or directory"
StderrTexts   == {"", ToolErrorText}

\* Indices and counts the tool reports for a file.
ToolIdx   == SmallIdx \cup {MAX_OST_INDEX}
ToolCount == 0..MaxCount

PyDict(d) == [k |-> "dict", d |-> d]

StripeDocs ==
    {None, PyDict([other |-> 0])}
    \cup {PyDict([lmm_stripe_count |-> c]) : c \in ToolCount}
    \cup {PyDict([lmm_stripe_offset |-> i]) : i \in ToolIdx}
    \cup {PyDict([lmm_stripe_count |-> c, lmm_stripe_offset |-> i]) :
             c \in ToolCount, i \in ToolIdx}

ToolFailures == {[rc |-> 1, stderr |-> e, doc |-> None] : e \in StderrTexts}
ToolSuccess(docs) == {[rc |-> 0, stderr |-> "", doc |-> d] : d \in docs}

\* getstripe on a path: the empty path names no file, so the tool fails on it.
GetstripeOutcomes(filename) ==
    IF filename = "" THEN ToolFailures
    ELSE ToolFailures \cup ToolSuccess(StripeDocs)

MigrateOutcomes == ToolFailures \cup ToolSuccess({None})

\* subprocess.run without check=True: a nonzero exit is not an exception.
subprocess_run_NoCheck(o) == Return(o.doc)

\* subprocess.run(args, check=True, capture_output=True)
subprocess_run(o) ==
    IF o.rc # 0 THEN Raise("CalledProcessError", o.stderr)
    ELSE Return(o.doc)

StripeInfo(filename, count, index) ==
    [filename |-> filename, count |-> count, index |-> index]

\* 'key in fields' of a loaded YAML document (None is not iterable).
HasKey(fields, key) == key \in DOMAIN fields.d

\* LfsUtils.stripe_info(filename) run against the tool outcome o.
stripe_info(filename, o) ==
    LET run == subprocess_run(o)
        fields == run.value
    IN  IF run.kind = "raised" THEN run
        ELSE IF fields = None
        THEN Raise("TypeError", "argument of type 'NoneType' is not iterable")
        ELSE IF ~HasKey(fields, LMM_STRIPE_COUNT)
        THEN Raise("LfsUtilsError", "Field lmm_stripe_count not found in stripe info")
        ELSE IF ~HasKey(fields, LMM_STRIPE_OFFSET)
        THEN Raise("LfsUtilsError", "Field lmm_stripe_offset not found in stripe info")
        ELSE Return(StripeInfo(filename, fields.d.lmm_stripe_count,
                               PyInt(fields.d.lmm_stripe_offset)))

(***************************************************************************)
(* LfsUtils.migrate_file.                                                  *)
(***************************************************************************)
LFS == "/usr/bin/lfs"

CallArgs(filename, source_idx, target_idx, direct_io, block, skip) ==
    [filename |-> filename, source_idx |-> source_idx, target_idx |-> target_idx,
     direct_io |-> direct_io, block |-> block, skip |-> skip]

\* One invocation of the tool as the call log keeps it.
Invocation(cmd, args, o) ==
    [cmd |-> cmd, args |-> args, rc |-> o.rc, stderr |-> o.stderr, doc |-> o.doc]

GetstripeArgs(filename) == <<LFS, "getstripe", "-c", "-i", "-y", filename>>

\* The argument list of 'lfs migrate' (lines 350-375).
MigrateArgs(c, count) ==
    <<LFS, "migrate">>
    \o (IF ~c.direct_io THEN <<"--non-direct">> ELSE <<>>)
    \o (IF c.block THEN <<"--block">> ELSE <<"--non-block">>)
    \o (IF c.target_idx # None THEN <<"-i", IntStr(c.target_idx.i)>> ELSE <<>>)
    \o (IF count > 0 THEN <<"-c", IntStr(count)>> ELSE <<>>)
    \o <<c.filename>>

\* Python's x < n and x > n for an int n: TypeError unless x is an int.
PyLess(x, n) ==
    IF isinstance(x, "int") THEN Return(x.i < n)
    ELSE Raise("TypeError", "'<' not supported between instances")
PyGreater(x, n) ==
    IF isinstance(x, "int") THEN Return(x.i > n)
    ELSE Raise("TypeError", "'>' not supported between instances")

\* The range check of target_idx before '-i' is appended (lines 360-366):
\* None when it passes, else the exception it raises.
TargetRangeCheck(c) ==
    IF c.target_idx = None THEN None
    ELSE LET lo == PyLess(c.target_idx, MIN_OST_INDEX)
             hi == PyGreater(c.source_idx, MAX_OST_INDEX)
         IN  IF lo.kind = "raised" THEN lo
             ELSE IF lo.value
             THEN Raise("ValueError", "target_idx is less than LfsUtils.MIN_OST_INDEX")
             ELSE IF hi.kind = "raised" THEN hi
             ELSE IF hi.value
             THEN Raise("ValueError", "target_idx is greater than LfsUtils.MAX_OST_INDEX")
             ELSE None

\* Lines 402-404: the elapsed time is taken and the MigrateResult is built;
\* an exception of the constructor leaves migrate_file.
Finish(state, pre, post, error_msg) ==
    \E t \in Elapsed :
        /\ mig_out' = MigrateResult(PyStr(state), PyStr(call.filename),
                                    PyTimedelta(t), pre, post, error_msg)
        /\ pc' = "done"

\* The except clauses of migrate_file (lines 391-400) for an exception r
\* raised in the try block; any other exception leaves migrate_file.
Except(r, pre, post) ==
    IF r.exc = "CalledProcessError"
    THEN Finish(FAILED, pre, post, IF r.msg # "" THEN PyStr(r.msg) ELSE None)
    ELSE IF r.exc = "LfsUtilsError"
    THEN Finish(FAILED, pre, post, PyStr(r.msg))
    ELSE mig_out' = r /\ pc' = "done"

\* The ladder with the source rule tried before the skip rule.
Ladder_SourceFirst(c, info) ==
    IF c.source_idx # info.index THEN IGNORED
    ELSE IF c.skip /\ info.count > 1 THEN SKIPPED
    ELSE IF c.target_idx = info.index THEN IGNORED
    ELSE "RELOCATE"

\* The ladder without its target rule.
Ladder_NoTargetRule(c, info) ==
    IF c.skip /\ info.count > 1 THEN SKIPPED
    ELSE IF c.source_idx # info.index THEN IGNORED
    ELSE "RELOCATE"

\* The decision ladder (lines 342-348): the state it decides, or RELOCATE
\* for the else branch.
Ladder(c, info) ==
    IF c.skip /\ info.count > 1 THEN SKIPPED
    ELSE IF c.source_idx # info.index THEN IGNORED
    ELSE IF c.target_idx = info.index THEN IGNORED
    ELSE "RELOCATE"

\* The classification comparing with the pre-move index.
Classify_AgainstPre(target_idx, pre, post) ==
    IF target_idx # None /\ target_idx # pre THEN DISPLACED ELSE SUCCESS

\* The classification after the re-query (lines 386-389).
Classify(target_idx, pre, post) ==
    IF target_idx # None /\ target_idx # post THEN DISPLACED ELSE SUCCESS

\* migrate_file is called: lines 323-336, up to the first external command.
Call ==
    /\ pc = "idle"
    /\ \E filename \in {"", TestFilename},
          source_idx \in {None, PyStr("5")} \cup {PyInt(n) : n \in CallerIdx},
          target_idx \in {None, PyStr("3")} \cup {PyInt(n) : n \in CallerIdx},
          direct_io \in BOOLEAN, block \in BOOLEAN, skip \in BOOLEAN :
          /\ call' = CallArgs(filename, source_idx, target_idx, direct_io, block, skip)
          /\ IF source_idx # None /\ ~isinstance(source_idx, "int")
             THEN /\ mig_out' = Raise("TypeError", "If source_idx ist set, it must be type of int")
                  /\ pc' = "done"
             ELSE IF target_idx # None /\ ~isinstance(target_idx, "int")
             THEN /\ mig_out' = Raise("TypeError", "If target_idx ist set, it must be type of int")
                  /\ pc' = "done"
             ELSE /\ mig_out' = None
                  /\ pc' = "pre_query"
    /\ UNCHANGED <<calls, pre_stripe_info, pre_ost_idx, post_ost_idx>>
    /\ UNCHANGED <<resultVars, queryVars, topologyVars, probeVars>>

\* Lines 338-381: the pre-move stripe query and the decision ladder, up to
\* the relocation command.
PreQuery ==
    /\ pc = "pre_query"
    /\ \E o \in GetstripeOutcomes(call.filename) :
        LET r == stripe_info(call.filename, o) IN
        /\ calls' = Append(calls, Invocation("getstripe", GetstripeArgs(call.filename), o))
        /\ IF r.kind = "raised"
           THEN /\ Except(r, pre_ost_idx, post_ost_idx)
                /\ UNCHANGED <<pre_stripe_info, pre_ost_idx, post_ost_idx>>
           ELSE /\ pre_stripe_info' = r.value
                /\ pre_ost_idx' = r.value.index
                /\ LET decision == Ladder(call, r.value)
                       chk == TargetRangeCheck(call)
                   IN  IF decision # "RELOCATE"
                       THEN /\ Finish(decision, r.value.index, post_ost_idx, None)
                            /\ UNCHANGED post_ost_idx
                       ELSE IF chk # None
                       THEN /\ Except(chk, r.value.index, post_ost_idx)
                            /\ UNCHANGED post_ost_idx
                       ELSE /\ post_ost_idx' =
                                   IF call.target_idx # None THEN call.target_idx
                                   ELSE post_ost_idx
                            /\ pc' = "migrate"
                            /\ UNCHANGED mig_out
    /\ UNCHANGED <<call>>
    /\ UNCHANGED <<resultVars, queryVars, topologyVars, probeVars>>

\* Line 382: the relocation command.
Migrate ==
    /\ pc = "migrate"
    /\ \E o \in MigrateOutcomes :
        LET r == subprocess_run(o) IN
        /\ calls' = Append(calls, Invocation("migrate",
                                  MigrateArgs(call, pre_stripe_info.count), o))
        /\ IF r.kind = "raised"
           THEN Except(r, pre_ost_idx, post_ost_idx)
           ELSE pc' = "post_query" /\ UNCHANGED mig_out
    /\ UNCHANGED <<call, pre_stripe_info, pre_ost_idx, post_ost_idx>>
    /\ UNCHANGED <<resultVars, queryVars, topologyVars, probeVars>>

\* Lines 384-389: the post-move stripe query and the classification.
PostQuery ==
    /\ pc = "post_query"
    /\ \E o \in GetstripeOutcomes(call.filename) :
        LET r == stripe_info(call.filename, o) IN
        /\ calls' = Append(calls, Invocation("getstripe", GetstripeArgs(call.filename), o))
        /\ IF r.kind = "raised"
           THEN /\ Except(r, pre_ost_idx, post_ost_idx)
                /\ UNCHANGED post_ost_idx
           ELSE /\ post_ost_idx' = r.value.index
                /\ Finish(Classify(call.target_idx, pre_ost_idx, r.value.index),
                          pre_ost_idx, r.value.index, None)
    /\ UNCHANGED <<call, pre_stripe_info, pre_ost_idx>>
    /\ UNCHANGED <<resultVars, queryVars, topologyVars, probeVars>>

NextMigrate == Call \/ PreQuery \/ Migrate \/ PostQuery

SpecMigrate == Init /\ [][NextMigrate]_vars

(***************************************************************************)
(* Claims about MigrateResult (checked under SpecResult).                  *)
(***************************************************************************)
MRConstructed == mr_args # NoArgs
MRMissing(x)  == x = None \/ x = PyStr("")

\* The constructions the claim names as rejected.
MRRejected(a) ==
    \/ MRMissing(a.filename)
    \/ a.time_elapsed = None
    \/ a.state = PyStr(FAILED) /\ MRMissing(a.error_msg)
    \/ a.state \notin {PyStr(s) : s \in MigrateState}

\* C9: a MigrateResult construction raises LfsUtilsError when the filename is
\* empty or missing, when the elapsed duration is missing, when the state is
\* FAILED and the error message is missing or empty, and when the state is
\* not one of the five MigrateState values; every other construction (with
\* indices that are int or None) succeeds.
C9_ConstructionRejectedExactly ==
    MRConstructed =>
        IF MRRejected(mr_args)
        THEN mr_out.kind = "raised" /\ mr_out.exc = "LfsUtilsError"
        ELSE mr_out.kind = "returned"

\* A FAILED construction with an empty error message (test_migrate_result_failed)
\* has been rejected although its filename and elapsed time are fine.
C9_Witness ==
    /\ MRConstructed
    /\ mr_args.state = PyStr(FAILED)
    /\ mr_args.filename = PyStr(TestFilename)
    /\ mr_args.time_elapsed # None
    /\ mr_args.error_msg = PyStr("")
    /\ mr_out.kind = "raised"

\* The rendering of an optional index the claim expects.
C10_IdxField(x) == IF x = None THEN "" ELSE ToString(x.i)

\* C10: the formatted MigrateResult has exactly the fields of its state:
\* IGNORED and SKIPPED are state|filename; SUCCESS and DISPLACED are
\* state|filename|elapsed|source|target with an absent index as an empty
\* field; FAILED has the error message as sixth field; no field of a
\* non-FAILED result is the error message passed to the constructor.
C10_FieldsOfState ==
    (MRConstructed /\ mr_out.kind = "returned") =>
        LET a  == mr_args
            st == a.state.s
            f  == mr_out.value.fields
            five == /\ f[1] = st
                    /\ f[2] = a.filename.s
                    /\ f[3] = TimedeltaStr(a.time_elapsed)
                    /\ f[4] = C10_IdxField(a.source_idx)
                    /\ f[5] = C10_IdxField(a.target_idx)
        IN  /\ st \in {IGNORED, SKIPPED} => f = <<st, a.filename.s>>
            /\ st \in {SUCCESS, DISPLACED} => Len(f) = 5 /\ five
            /\ st = FAILED => Len(f) = 6 /\ five /\ f[6] = a.error_msg.s
            /\ (st # FAILED /\ Truthy(a.error_msg)) =>
                   \A n \in 1..Len(f) : f[n] # a.error_msg.s
            \* the strings of tests/test_lfsutils.py
            /\ (st \in {SUCCESS, DISPLACED} /\ a.filename.s = TestFilename
                  /\ a.time_elapsed.secs = TestElapsed
                  /\ a.source_idx = None /\ a.target_idx = None) =>
                   mr_out.value.text = st \o "|test.tmp|0:01:13||"
            /\ (st \in {IGNORED, SKIPPED} /\ a.filename.s = TestFilename) =>
                   mr_out.value.text = st \o "|test.tmp"

\* A SUCCESS result built with an absent source index, a target index and an
\* error message: five fields, the fourth empty.
C10_Witness ==
    /\ MRConstructed
    /\ mr_out.kind = "returned"
    /\ mr_args.state = PyStr(SUCCESS)
    /\ mr_args.source_idx = None
    /\ mr_args.target_idx # None
    /\ mr_args.error_msg = PyStr(TestErrorMsg)
    /\ Len(mr_out.value.fields) = 5
    /\ mr_out.value.fields[4] = ""

(***************************************************************************)
(* Claims about migrate_file (checked under SpecMigrate).                  *)
(***************************************************************************)
Done     == pc = "done"
Returned == Done /\ mig_out.kind = "returned"
Raised   == Done /\ mig_out.kind = "raised"

\* The state of the MigrateResult returned.
ReturnedState(st) == Returned /\ mig_out.value.fields[1] = st

InvokedCmd(cmd) == \E n \in 1..Len(calls) : calls[n].cmd = cmd

\* A stripe query whose tool run succeeded and printed both stripe keys.
QueryOk(inv) ==
    /\ inv.cmd = "getstripe"
    /\ inv.rc = 0
    /\ inv.doc # None
    /\ {LMM_STRIPE_COUNT, LMM_STRIPE_OFFSET} \subseteq DOMAIN inv.doc.d

\* The pre-move query was made and succeeded: the file's count and index.
PreQueried == Len(calls) >= 1 /\ QueryOk(calls[1])
FileCount  == calls[1].doc.d.lmm_stripe_count
FileIndex  == calls[1].doc.d.lmm_stripe_offset

InRange(x) == x.k = "int" /\ x.i >= MIN_OST_INDEX /\ x.i <= MAX_OST_INDEX

\* Step 1 of the specification: filename non-empty, indices absent or
\* integers of the valid range.
Step1Valid(c) ==
    /\ c.filename # ""
    /\ c.source_idx = None \/ InRange(c.source_idx)
    /\ c.target_idx = None \/ InRange(c.target_idx)

SkipApplies   == call.skip /\ FileCount > 1
SourceApplies == call.source_idx # None /\ call.source_idx # PyInt(FileIndex)
TargetApplies == call.target_idx # None /\ call.target_idx = PyInt(FileIndex)

\* C1: every call of migrate_file whose arguments pass the step-1 validation
\* ends by returning a MigrateResult and no exception leaves it, whatever
\* the external tool did.
C1_AlwaysReturnsResult ==
    (Done /\ Step1Valid(call)) => mig_out.kind = "returned"

\* C2: with skip enabled and a file of stripe count above 1, migrate_file
\* returns SKIPPED whatever source_idx and target_idx are, and the
\* relocation command is not invoked.
C2_SkipMultiStriped ==
    (Done /\ PreQueried /\ SkipApplies) =>
        /\ ReturnedState(SKIPPED)
        /\ ~InvokedCmd("migrate")

\* Skipped although source_idx matches the file's index and a different
\* target_idx is given (the call would otherwise relocate).
C2_Witness ==
    /\ Done /\ PreQueried /\ SkipApplies
    /\ call.source_idx = PyInt(FileIndex)
    /\ call.target_idx # None /\ call.target_idx # PyInt(FileIndex)
    /\ ReturnedState(SKIPPED)

\* C3: when the skip rule does not apply, the source rule gives IGNORED
\* exactly when source_idx is given and differs from the pre-move index; a
\* call without source_idx is not IGNORED by the source rule: unless the
\* target rule applies it is not IGNORED at all.
C3_SourceRuleOnlyWhenGiven ==
    (Done /\ Step1Valid(call) /\ PreQueried /\ ~SkipApplies) =>
        /\ SourceApplies => ReturnedState(IGNORED)
        /\ (~SourceApplies /\ ~TargetApplies) => ~ReturnedState(IGNORED)

\* C4: when neither the skip rule nor the source rule applies and target_idx
\* is given and equals the pre-move index, the result is IGNORED and the
\* relocation command is not invoked.
C4_AlreadyAtTarget ==
    (Done /\ PreQueried /\ ~SkipApplies /\ ~SourceApplies /\ TargetApplies) =>
        /\ ReturnedState(IGNORED)
        /\ ~InvokedCmd("migrate")

\* A file that is on the expected source, with that same index as target.
C4_Witness ==
    /\ Done /\ PreQueried /\ ~SkipApplies
    /\ call.source_idx = PyInt(FileIndex)
    /\ call.target_idx = PyInt(FileIndex)
    /\ ReturnedState(IGNORED)

\* The relocation command ran with exit status zero and the re-query succeeded.
Relocated ==
    /\ Len(calls) = 3
    /\ calls[2].cmd = "migrate" /\ calls[2].rc = 0
    /\ QueryOk(calls[3])
PostIndex == calls[3].doc.d.lmm_stripe_offset

\* C5: after a relocation command with exit status zero and a successful
\* post-move query the result is DISPLACED iff target_idx was given and
\* differs from the post-move index, SUCCESS otherwise; its source field is
\* the pre-move index and its target field the post-move index.
C5_ClassifiedAfterRelocation ==
    (Done /\ Relocated) =>
        /\ Returned
        /\ mig_out.value.fields[1] =
              IF call.target_idx # None /\ call.target_idx.i # PostIndex
              THEN DISPLACED ELSE SUCCESS
        /\ Len(mig_out.value.fields) = 5
        /\ mig_out.value.fields[4] = ToString(FileIndex)
        /\ mig_out.value.fields[5] = ToString(PostIndex)

\* A relocation that landed on another index than the one requested.
C5_Witness ==
    /\ Done /\ Relocated
    /\ call.target_idx # None
    /\ call.target_idx.i # PostIndex
    /\ FileIndex # PostIndex
    /\ ReturnedState(DISPLACED)

\* The relocation command was invoked and exited nonzero.
RelocationFailed ==
    /\ Len(calls) = 2
    /\ calls[2].cmd = "migrate" /\ calls[2].rc # 0

\* C6: when the relocation command exits nonzero, migrate_file returns
\* FAILED with the tool's captured error text as error message, the
\* pre-move index as source and, as target, nothing or the requested
\* target_idx.
C6_FailedCarriesToolText ==
    (Done /\ Step1Valid(call) /\ RelocationFailed) =>
        /\ ReturnedState(FAILED)
        /\ Len(mig_out.value.fields) = 6
        /\ mig_out.value.fields[6] = calls[2].stderr
        /\ mig_out.value.fields[4] = ToString(FileIndex)
        /\ mig_out.value.fields[5] =
              IF call.target_idx = None THEN "" ELSE ToString(call.target_idx.i)

\* The pre-move query was made and failed: nonzero exit, empty output or a
\* document lacking a stripe key.
PreQueryFailed == Len(calls) >= 1 /\ ~QueryOk(calls[1])

\* C7: when the pre-move stripe query fails, migrate_file returns FAILED
\* with the underlying message instead of raising, and the relocation
\* command is not invoked.
C7_PreQueryFailureIsFailed ==
    (Done /\ Step1Valid(call) /\ PreQueryFailed) =>
        /\ ReturnedState(FAILED)
        /\ Len(mig_out.value.fields) = 6
        /\ mig_out.value.fields[6] # ""
        /\ ~InvokedCmd("migrate")

\* C8: a call with an empty filename, or with a source_idx or target_idx
\* that is given and is not an integer of [0, 65535], raises a validation
\* error before any external command is invoked.
C8_ValidationBeforeAnyCommand ==
    (Done /\ ~Step1Valid(call)) =>
        /\ Raised
        /\ calls = <<>>

(***************************************************************************)
(* Text.  A Python str whose characters matter is a sequence of            *)
(* one-character strings: '000c' is <<"0", "0", "0", "c">>.                *)
(***************************************************************************)
DecChars      == <<"0", "1", "2", "3", "4", "5", "6", "7", "8", "9">>
HexLowerChars == DecChars \o <<"a", "b", "c", "d", "e", "f">>
HexUpperChars == DecChars \o <<"A", "B", "C", "D", "E", "F">>

Range(seq) == {seq[n] : n \in 1..Len(seq)}

DecCharSet      == Range(DecChars)
HexLowerCharSet == Range(HexLowerChars)
HexCharSet      == Range(HexLowerChars) \cup Range(HexUpperChars)

IsDecChar(c) == c \in DecCharSet
IsHexChar(c) == c \in HexCharSet
IsSpace(c)   == c \in {" ", "\t"}

\* The value of one hexadecimal digit of either case.
HexCharValue(c) ==
    CHOOSE d \in 0..15 : HexLowerChars[d + 1] = c \/ HexUpperChars[d + 1] = c

\* The digits of n >= 0 in the given base, most significant first.
RECURSIVE DigitsOf(_, _)
DigitsOf(n, base) ==
    IF n < base THEN <<HexLowerChars[n + 1]>>
    ELSE DigitsOf(n \div base, base) \o <<HexLowerChars[(n % base) + 1]>>

\* The value of a sequence of digits in the given base.
RECURSIVE ValueOf(_, _)
ValueOf(chars, base) ==
    IF chars = <<>> THEN 0
    ELSE ValueOf(SubSeq(chars, 1, Len(chars) - 1), base) * base
           + HexCharValue(chars[Len(chars)])

\* str(n) of an int as text.
PyStrOfInt(n) == IF n < 0 THEN <<"-">> \o DigitsOf(-n, 10) ELSE DigitsOf(n, 10)

\* hex(n): '0x..' in lowercase, '-0x..' for a negative n.
PyHex(n) ==
    IF n < 0 THEN <<"-", "0", "x">> \o DigitsOf(-n, 16)
    ELSE <<"0", "x">> \o DigitsOf(n, 16)

\* s.split(c)[-1]: the text after the last c (all of s when c is not in it).
RECURSIVE SplitLast(_, _)
SplitLast(chars, c) ==
    IF \A n \in 1..Len(chars) : chars[n] # c THEN chars
    ELSE SplitLast(Tail(chars), c)

\* A padding that appends the zeros instead of prepending them.
RECURSIVE zfill_Right(_, _)
zfill_Right(chars, width) ==
    IF Len(chars) >= width THEN chars ELSE zfill_Right(chars \o <<"0">>, width)

\* s.zfill(width) of an unsigned text.
RECURSIVE zfill(_, _)
zfill(chars, width) ==
    IF Len(chars) >= width THEN chars ELSE zfill(<<"0">> \o chars, width)

\* s.strip() for blanks.
RECURSIVE lstrip(_)
lstrip(chars) ==
    IF chars # <<>> /\ IsSpace(chars[1]) THEN lstrip(Tail(chars)) ELSE chars
RECURSIVE rstrip(_)
rstrip(chars) ==
    IF chars # <<>> /\ IsSpace(chars[Len(chars)])
    THEN rstrip(SubSeq(chars, 1, Len(chars) - 1)) ELSE chars
strip(chars) == rstrip(lstrip(chars))

\* int(s, 16) of a text of hexadecimal digits (an optional 0x prefix is
\* accepted as Python does); ValueError for anything else.
PyIntBase16(chars) ==
    LET body == IF Len(chars) >= 2 /\ chars[1] = "0" /\ chars[2] \in {"x", "X"}
                THEN SubSeq(chars, 3, Len(chars)) ELSE chars
    IN  IF body # <<>> /\ \A n \in 1..Len(body) : IsHexChar(body[n])
        THEN Return(ValueOf(body, 16))
        ELSE Raise("ValueError", "invalid literal for int() with base 16")

\* int(s) of a text of decimal digits with blanks around it.
PyIntBase10(chars) ==
    LET body == strip(chars)
    IN  IF body # <<>> /\ \A n \in 1..Len(body) : IsDecChar(body[n])
        THEN Return(ValueOf(body, 10))
        ELSE Raise("ValueError", "invalid literal for int() with base 10")

(***************************************************************************)
(* The index codec: to_ost_hex and create_rangeset_from_hex.               *)
(***************************************************************************)
\* to_ost_hex without the test of the upper end of the range.
to_ost_hex_NoUpperCheck(ost) ==
    IF ost < MIN_OST_INDEX
    THEN Raise("LfsUtilsError", "OST index invalid")
    ELSE Return(zfill(SplitLast(PyHex(ost), "x"), 4))

\* to_ost_hex (lines 43-49).
to_ost_hex(ost) ==
    IF ost < MIN_OST_INDEX \/ ost > MAX_OST_INDEX
    THEN Raise("LfsUtilsError", "OST index invalid")
    ELSE Return(zfill(SplitLast(PyHex(ost), "x"), 4))

\* _replace_regex_match_hex_to_dec: str(int(match.group(), 16)).
replace_regex_match_hex_to_dec(group) == PyStrOfInt(PyIntBase16(group).value)

\* _REGEX_OST_HEX matches at the head of chars: four hexadecimal digits.
RegexOstHexAtHead(chars) ==
    Len(chars) >= 4 /\ \A n \in 1..4 : IsHexChar(chars[n])

\* The substitution with a pattern of lowercase digits only.
RECURSIVE regex_ost_hex_sub_LowerOnly(_)
regex_ost_hex_sub_LowerOnly(chars) ==
    IF chars = <<>> THEN <<>>
    ELSE IF Len(chars) >= 4 /\ \A n \in 1..4 : chars[n] \in HexLowerCharSet
    THEN replace_regex_match_hex_to_dec(SubSeq(chars, 1, 4))
           \o regex_ost_hex_sub_LowerOnly(SubSeq(chars, 5, Len(chars)))
    ELSE <<chars[1]>> \o regex_ost_hex_sub_LowerOnly(Tail(chars))

\* _REGEX_OST_HEX.sub(_replace_regex_match_hex_to_dec, hex_def): the leftmost
\* non-overlapping matches are replaced, the other characters are kept.
RECURSIVE regex_ost_hex_sub(_)
regex_ost_hex_sub(chars) ==
    IF chars = <<>> THEN <<>>
    ELSE IF RegexOstHexAtHead(chars)
    THEN replace_regex_match_hex_to_dec(SubSeq(chars, 1, 4))
           \o regex_ost_hex_sub(SubSeq(chars, 5, Len(chars)))
    ELSE <<chars[1]>> \o regex_ost_hex_sub(Tail(chars))

\* s.split(c): the pieces of s between the occurrences of c.
RECURSIVE Split(_, _)
Split(chars, c) ==
    IF \A n \in 1..Len(chars) : chars[n] # c THEN <<chars>>
    ELSE LET p == CHOOSE n \in 1..Len(chars) :
                     chars[n] = c /\ \A m \in 1..(n - 1) : chars[m] # c
         IN  <<SubSeq(chars, 1, p - 1)>> \o Split(SubSeq(chars, p + 1, Len(chars)), c)

\* The elements of a finite set of integers in ascending order.
RECURSIVE Ascending(_)
Ascending(S) ==
    IF S = {} THEN <<>>
    ELSE LET lo == CHOOSE x \in S : \A y \in S : x <= y
         IN  <<lo>> \o Ascending(S \ {lo})

\* One subrange of a range set, 'n' or 'lo-hi': the integers it covers, or
\* the parse error.
SubrangeOf(part) ==
    LET pieces == Split(part, "-")
        begin  == PyIntBase10(pieces[1])
        end    == PyIntBase10(pieces[Len(pieces)])
    IN  IF Len(pieces) > 2 \/ begin.kind = "raised" \/ end.kind = "raised"
        THEN Raise("RangeSetParseError", "cannot convert string to integer")
        ELSE IF begin.value > end.value
        THEN Raise("RangeSetParseError", "invalid values in range")
        ELSE Return(begin.value .. end.value)

\* ClusterShell.RangeSet.RangeSet(pattern) for comma-separated subranges of
\* non-negative numbers (steps 'lo-hi/step' are not modelled): the covered
\* integers as the ascending sequence its iteration yields; a malformed
\* subrange fails the whole construction.
RangeSet(pattern) ==
    LET parts == Split(pattern, ",")
        subs  == [n \in 1..Len(parts) |-> SubrangeOf(parts[n])]
    IN  IF \E n \in 1..Len(parts) : subs[n].kind = "raised"
        THEN subs[CHOOSE n \in 1..Len(parts) :
                    subs[n].kind = "raised"
                    /\ \A m \in 1..(n - 1) : subs[m].kind # "raised"]
        ELSE Return(Ascending(UNION {subs[n].value : n \in 1..Len(parts)}))

\* create_rangeset_from_hex (lines 55-68).
create_rangeset_from_hex(hex_def) == RangeSet(regex_ost_hex_sub(hex_def))

(***************************************************************************)
(* SpecCodec: calls of to_ost_hex, create_rangeset_from_hex and of the     *)
(* RangeSet construction of the command line (cli.py line 70).             *)
(***************************************************************************)
MaxItems == 2     \* subranges per sampled range specification
MaxSpan  == 16    \* widest sampled range lo-hi

\* Values of the sampled hexadecimal tokens: those of the documented example
\* '0000, 00FF, ff00-FF10, dd23'.
HexSampleValues == {0, 255, 56611, 65280, 65296}
\* Values of the sampled decimal tokens: those of '0-9,12,87' and the upper
\* boundary with its neighbour.
DecSampleValues == {0, 9, 12, 87, MAX_OST_INDEX, MAX_OST_INDEX + 1}

UpperOf(c) ==
    IF \E d \in 1..16 : HexLowerChars[d] = c
    THEN HexUpperChars[CHOOSE d \in 1..16 : HexLowerChars[d] = c]
    ELSE c

\* A value as a four-digit hexadecimal token in lower or upper case.
HexToken(v, upper) ==
    LET low == zfill(DigitsOf(v, 16), 4)
    IN  IF upper THEN [n \in 1..Len(low) |-> UpperOf(low[n])] ELSE low

SpanPairs(values) ==
    {p \in values \X values : p[1] <= p[2] /\ p[2] - p[1] <= MaxSpan}

Item(kind, lo, hi, text) == [kind |-> kind, lo |-> lo, hi |-> hi, text |-> text]

\* Well-formed items: a single token, or a range lo-hi with lo <= hi; the two
\* tokens of a range are both lowercase, both uppercase, or one of each.
TokenCases == {<<FALSE, FALSE>>, <<TRUE, TRUE>>, <<FALSE, TRUE>>}

HexItems ==
    {Item("single", v, v, HexToken(v, up)) : v \in HexSampleValues, up \in BOOLEAN}
    \cup {Item("range", p[1], p[2],
               HexToken(p[1], up[1]) \o <<"-">> \o HexToken(p[2], up[2])) :
             p \in SpanPairs(HexSampleValues), up \in TokenCases}

\* Malformed items: five hexadecimal digits, a non-hexadecimal character, a
\* range whose ends are swapped.
BadHexItems ==
    { Item("long", 0, 0, <<"f", "f", "f", "f", "0">>),
      Item("long", 0, 0, <<"0", "0", "f", "f", "0">>),
      Item("nonhex", 0, 0, <<"0", "0", "g", "1">>),
      Item("swapped", 65296, 65280, HexToken(65296, FALSE) \o <<"-">> \o HexToken(65280, FALSE)) }

DecItems ==
    {Item("single", v, v, PyStrOfInt(v)) : v \in DecSampleValues}
    \cup {Item("range", p[1], p[2], PyStrOfInt(p[1]) \o <<"-">> \o PyStrOfInt(p[2])) :
             p \in SpanPairs(DecSampleValues)}

\* The sequences of 1..MaxItems items of a set.
ItemSeqs(items) == UNION {[1..n -> items] : n \in 1..MaxItems}

\* The text of a specification: the items joined by ',' or by ', '.
RECURSIVE SpecText(_, _)
SpecText(items, spaced) ==
    IF Len(items) = 1 THEN items[1].text
    ELSE items[1].text \o (IF spaced THEN <<",", " ">> ELSE <<",">>)
           \o SpecText(Tail(items), spaced)

\* '0000, 00FF, ff00-FF10, dd23'
ExampleHexItems ==
    << Item("single", 0, 0, HexToken(0, FALSE)),
       Item("single", 255, 255, HexToken(255, TRUE)),
       Item("range", 65280, 65296, HexToken(65280, FALSE) \o <<"-">> \o HexToken(65296, TRUE)),
       Item("single", 56611, 56611, HexToken(56611, FALSE)) >>

\* '0-9,12,87'
ExampleDecItems ==
    << Item("range", 0, 9, <<"0", "-", "9">>),
       Item("single", 12, 12, <<"1", "2">>),
       Item("single", 87, 87, <<"8", "7">>) >>

RangeArgs(items, spaced) ==
    [items |-> items, spaced |-> spaced, text |-> SpecText(items, spaced)]

\* to_ost_hex(ost) for every index and the neighbours of both boundaries.
ToOstHex ==
    /\ q_op = "none"
    /\ \E ost \in (MIN_OST_INDEX - 1)..(MAX_OST_INDEX + 1) :
          /\ q_op' = "to_ost_hex"
          /\ q_in' = [ost |-> ost]
          /\ q_out' = to_ost_hex(ost)
    /\ UNCHANGED <<resultVars, migrateVars, topologyVars, probeVars>>

\* create_rangeset_from_hex(hex_def).
CreateRangesetFromHex ==
    /\ q_op = "none"
    /\ \E items \in ItemSeqs(HexItems \cup BadHexItems) \cup {ExampleHexItems},
          spaced \in BOOLEAN :
          /\ q_op' = "create_rangeset_from_hex"
          /\ q_in' = RangeArgs(items, spaced)
          /\ q_out' = create_rangeset_from_hex(SpecText(items, spaced))
    /\ UNCHANGED <<resultVars, migrateVars, topologyVars, probeVars>>

\* RangeSet(args.rangeset): the decimal range specification of the command
\* line, as handed to lookup_oss_by_ost_rangeset.
CreateRangeset ==
    /\ q_op = "none"
    /\ \E items \in ItemSeqs(DecItems) \cup {ExampleDecItems}, spaced \in BOOLEAN :
          /\ q_op' = "RangeSet"
          /\ q_in' = RangeArgs(items, spaced)
          /\ q_out' = RangeSet(SpecText(items, spaced))
    /\ UNCHANGED <<resultVars, migrateVars, topologyVars, probeVars>>

NextCodec == ToOstHex \/ CreateRangesetFromHex \/ CreateRangeset

SpecCodec == Init /\ [][NextCodec]_vars

(***************************************************************************)
(* Output parsers: 'lfs check osts' (component states) and 'lfs df' (fill  *)
(* levels).  A document is a sequence of lines (output.split('\n')); a     *)
(* line is a sequence of characters.                                       *)
(***************************************************************************)
LowerChars ==
    << "a", "b", "c", "d", "e", "f", "g", "h", "i", "j", "k", "l", "m",
       "n", "o", "p", "q", "r", "s", "t", "u", "v", "w", "x", "y", "z" >>

\* [a-z0-9]
LowerAlnumCharSet == Range(LowerChars) \cup Range(DecChars)

Max(S) == CHOOSE x \in S : \A y \in S : y <= x
Min(S) == CHOOSE x \in S : \A y \in S : x <= y

\* The end of the longest run of characters of a class (a set of
\* characters) that starts at position from (from - 1 when the run is empty).
RunEnd(chars, from, class) ==
    CHOOSE e \in (from - 1)..Len(chars) :
        /\ e = Len(chars) \/ chars[e + 1] \notin class
        /\ \A n \in from..e : chars[n] \in class

OST == <<"O", "S", "T">>
MDT == <<"M", "D", "T">>

NoMatch == [matched |-> FALSE]

\* _REGEX_STR_LFS_COMP_STATE = (.+)\-((OST|MDT){1}[a-z0-9]+)\-[a-z0-9-]+\s(.+)\.
\* tried with group 1 ending at position p.  The two character-class runs end
\* where the class ends (the character that follows is outside the class), and
\* the greedy group 4 ends before the last '.' of the line.
CompStateMatchAt(chars, p) ==
    LET nameEnd   == RunEnd(chars, p + 5, LowerAlnumCharSet)
        sufEnd    == RunEnd(chars, nameEnd + 2, LowerAlnumCharSet \cup {"-"})
        stateFrom == sufEnd + 2
        dots      == {e \in (stateFrom + 1)..Len(chars) : chars[e] = "."}
    IN  IF /\ p >= 1
           /\ p + 4 <= Len(chars)
           /\ chars[p + 1] = "-"
           /\ SubSeq(chars, p + 2, p + 4) \in {OST, MDT}
           /\ nameEnd >= p + 5
           /\ nameEnd + 1 <= Len(chars)
           /\ chars[nameEnd + 1] = "-"
           /\ sufEnd >= nameEnd + 2
           /\ sufEnd + 1 <= Len(chars)
           /\ IsSpace(chars[sufEnd + 1])
           /\ dots # {}
        THEN [matched   |-> TRUE,
              target    |-> SubSeq(chars, 1, p),
              comp_name |-> SubSeq(chars, p + 2, nameEnd),
              comp_type |-> SubSeq(chars, p + 2, p + 4),
              state     |-> SubSeq(chars, stateFrom, Max(dots) - 1)]
        ELSE NoMatch

\* _REGEX_PATTERN_LFS_COMP_STATE.match(stripped_line): group 1 is greedy, so
\* the match with the longest group 1 is the one found.
regex_comp_state_match(chars) ==
    LET ends == {p \in 1..Len(chars) : CompStateMatchAt(chars, p).matched}
    IN  IF ends = {} THEN NoMatch ELSE CompStateMatchAt(chars, Max(ends))

ACTIVE == <<"a", "c", "t", "i", "v", "e">>

\* LfsComponentState(target, name, type_, state, active): the index is
\* int(name[3:], 16), whose ValueError leaves the constructor.
LfsComponentState(target, name, type_, state, active) ==
    LET idx == PyIntBase16(SubSeq(name, 4, Len(name)))
    IN  IF idx.kind = "raised" THEN idx
        ELSE Return([target |-> target, name |-> name, type |-> type_,
                     state |-> state, active |-> active, idx |-> idx.value])

LfsComponentCollection == [mdts |-> <<>>, osts |-> <<>>]

\* d[key] = value
DictPut(d, key, value) ==
    [x \in DOMAIN d \cup {key} |-> IF x = key THEN value ELSE d[x]]

CollectionPut_AllOsts(col, comp_type, item) ==
    [col EXCEPT !.osts = DictPut(col.osts, item.idx, item)]

\* Lines 242-252: the sub-map is chosen by the component type and the item
\* is stored under its index.  Group 3 of the pattern is OST or MDT, so the
\* RuntimeError branch of line 247 is never taken.
CollectionPut(col, comp_type, item) ==
    IF comp_type = OST
    THEN [col EXCEPT !.osts = DictPut(col.osts, item.idx, item)]
    ELSE [col EXCEPT !.mdts = DictPut(col.mdts, item.idx, item)]

\* The element of a one-element set.  '{F(x) : x \in {e}}' evaluates e once
\* and names its value x, as an assignment to a local variable does.
TheOnly(S) == CHOOSE x \in S : TRUE

\* Lines 235-255: the entry of a matching line is stored.
StoreComponent(comp_states, match) ==
    LET started == IF match.target \in DOMAIN comp_states
                   THEN comp_states
                   ELSE DictPut(comp_states, match.target, LfsComponentCollection)
        item == LfsComponentState(match.target, match.comp_name, match.comp_type,
                                  match.state, match.state = ACTIVE)
    IN  IF item.kind = "raised" THEN item
        ELSE Return(DictPut(started, match.target,
                            CollectionPut(started[match.target],
                                          match.comp_type, item.value)))

\* The body of the loop over the lines (lines 227-259): a blank line and a
\* line the pattern does not match (a warning is logged) change nothing.
ComponentLine(comp_states, line) ==
    TheOnly({ IF ~match.matched THEN Return(comp_states)
              ELSE StoreComponent(comp_states, match) :
                 match \in {regex_comp_state_match(strip(line))} })

RECURSIVE ComponentLines(_, _, _)
ComponentLines(comp_states, lines, n) ==
    IF n > Len(lines) THEN Return(comp_states)
    ELSE TheOnly({ IF r.kind = "raised" THEN r
                   ELSE ComponentLines(r.value, lines, n + 1) :
                      r \in {ComponentLine(comp_states, lines[n])} })

\* LfsUtils.retrieve_component_states on the lines of the tool's output.
retrieve_component_states(lines) == ComponentLines(<<>>, lines, 1)

\* comp_states[target].osts[idx].active
ActiveOf_Default(comp_states, target, idx) ==
    IF target \notin DOMAIN comp_states THEN Return(FALSE)
    ELSE IF idx \notin DOMAIN comp_states[target].osts THEN Return(FALSE)
    ELSE Return(comp_states[target].osts[idx].active)

\* comp_states[target].osts[idx].active: two dictionary subscripts, each a
\* KeyError for a key that is not there.
ActiveOf(comp_states, target, idx) ==
    IF target \notin DOMAIN comp_states THEN Raise("KeyError", "target")
    ELSE IF idx \notin DOMAIN comp_states[target].osts THEN Raise("KeyError", "idx")
    ELSE Return(comp_states[target].osts[idx].active)

\* LfsUtils.is_ost_idx_active
is_ost_idx_active(target, idx, lines) ==
    TheOnly({ IF comp_states.kind = "raised" THEN comp_states
              ELSE ActiveOf(comp_states.value, target, idx) :
                 comp_states \in {retrieve_component_states(lines)} })

\* _REGEX_STR_OST_FILL_LEVEL = (\d{1,3})%.*\[OST:([0-9]{1,4})\]
\* The percentage that starts at position i: one to three digits and '%'.
FillPercentEnd(chars, i) ==
    LET e == RunEnd(chars, i, DecCharSet)
    IN  IF e >= i /\ e - i + 1 <= 3 /\ e + 1 <= Len(chars) /\ chars[e + 1] = "%"
        THEN e ELSE 0

OST_BRACKET == << "[", "O", "S", "T", ":" >>

\* '[OST:' at position b, followed by one to four digits and ']': the end of
\* the digits, or 0.
FillIndexEnd(chars, b) ==
    LET from == b + Len(OST_BRACKET)
        e == RunEnd(chars, from, DecCharSet)
    IN  IF /\ b + Len(OST_BRACKET) - 1 <= Len(chars)
           /\ SubSeq(chars, b, b + Len(OST_BRACKET) - 1) = OST_BRACKET
           /\ e >= from /\ e - from + 1 <= 4
           /\ e + 1 <= Len(chars) /\ chars[e + 1] = "]"
        THEN e ELSE 0

\* _REGEX_PATTERN_OST_FILL_LEVEL.search(stripped_line): the leftmost start
\* that has a match; the greedy '.*' then takes the last '[OST:n]'.
regex_fill_level_search(chars) ==
    LET brackets(i) == {b \in (FillPercentEnd(chars, i) + 2)..Len(chars) :
                           FillIndexEnd(chars, b) > 0}
        starts == {i \in 1..Len(chars) :
                      FillPercentEnd(chars, i) > 0 /\ brackets(i) # {}}
    IN  IF starts = {} THEN NoMatch
        ELSE LET i == Min(starts)
                 b == Max(brackets(i))
             IN  [matched |-> TRUE,
                  fill_level |-> SubSeq(chars, i, FillPercentEnd(chars, i)),
                  ost_idx |-> SubSeq(chars, b + Len(OST_BRACKET), FillIndexEnd(chars, b))]

\* The body of the loop over the lines (lines 422-434): a blank line and a
\* line without a match change nothing.
FillLevelLine(ost_fill_level_dict, line) ==
    TheOnly({ IF ~match.matched THEN ost_fill_level_dict
              ELSE DictPut(ost_fill_level_dict, PyIntBase10(match.ost_idx).value,
                           PyIntBase10(match.fill_level).value) :
                 match \in {regex_fill_level_search(strip(line))} })

RECURSIVE FillLevelLines(_, _, _)
FillLevelLines(ost_fill_level_dict, lines, n) ==
    IF n > Len(lines) THEN ost_fill_level_dict
    ELSE TheOnly({ FillLevelLines(d, lines, n + 1) :
                      d \in {FillLevelLine(ost_fill_level_dict, lines[n])} })

\* LfsUtils.retrieve_ost_disk_usage(fs_path) on the lines of 'lfs df'.
retrieve_ost_disk_usage(fs_path, lines) ==
    IF fs_path = "" THEN Raise("LfsUtilsError", "Lustre filesystem path is not set")
    ELSE TheOnly({ IF DOMAIN ost_fill_level_dict = {}
                   THEN Raise("LfsUtilsError", "Lustre OST fill levels are empty")
                   ELSE Return(ost_fill_level_dict) :
                      ost_fill_level_dict \in {FillLevelLines(<<>>, lines, 1)} })

(***************************************************************************)
(* The parsers as a specification: one call of a parser on a sampled       *)
(* document, or one stripe query on a sampled tool outcome.                *)
(***************************************************************************)
MaxLines == 2     \* lines per sampled document

LUSTRE    == << "l", "u", "s", "t", "r", "e" >>
LUSTREFS2 == << "l", "u", "s", "t", "r", "e", "f", "s", "2" >>
SCRATCH   == << "s", "c", "r", "a", "t", "c", "h" >>
INACTIVE  == << "i", "n", "a", "c", "t", "i", "v", "e" >>

CompTargets   == {LUSTRE, LUSTREFS2}
CompTypes     == {OST, MDT}
CompSampleIdx == {0, 3, 10}
CompStates    == {ACTIVE, INACTIVE}

\* The client-side device suffix of a component name.
CompSuffix(type_) ==
    IF type_ = OST THEN << "-", "o", "s", "c", "-", "f", "f", "f", "f", "8", "a", "0", "b", "5", "c", "6", "d", "7", "0", "0", "0" >>
    ELSE << "-", "m", "d", "c", "-", "f", "f", "f", "f", "8", "a", "0", "b", "5", "c", "6", "d", "7", "0", "0", "0" >>

\* '<target>-<OST|MDT><hex-index>-<suffix> <state>.'
CompLineText(target, type_, idxText, state) ==
    target \o <<"-">> \o type_ \o idxText \o CompSuffix(type_)
    \o <<" ">> \o state \o <<".">>

CompItem(target, type_, idx, state) ==
    [kind |-> "component", target |-> target, type |-> type_, idx |-> idx,
     state |-> state, text |-> CompLineText(target, type_, HexToken(idx, FALSE), state)]

NoiseItem(kind, text) ==
    [kind |-> kind, target |-> <<>>, type |-> <<>>, idx |-> 0, state |-> <<>>,
     text |-> text]

CompItems ==
    {CompItem(t, ty, i, st) :
        t \in CompTargets, ty \in CompTypes, i \in CompSampleIdx, st \in CompStates}

\* Lines that are not a component line: an empty line, a line of blanks, a
\* line of another shape, and a component line whose index is not
\* hexadecimal.
CompNoiseItems ==
    { NoiseItem("blank", <<>>),
      NoiseItem("blank", <<" ", " ">>),
      NoiseItem("noise", << "l", "f", "s", " ", "c", "h", "e", "c", "k", ":", " ", "e", "r", "r", "o", "r" >>) }

CompBadIndexItems ==
    { NoiseItem("badindex", CompLineText(LUSTRE, OST, << "0", "0", "z", "z" >>, ACTIVE)) }

\* A line of the same shape for a component of another type.
CompOtherTypeItems ==
    { NoiseItem("othertype",
                CompLineText(LUSTRE, << "M", "G", "S" >>, << "0", "0", "0", "0" >>, ACTIVE)) }

\* The documents of 1..MaxLines lines of a set of items.
Documents(items) == UNION {[1..n -> items] : n \in 1..MaxLines}

LinesOf(doc) == [n \in 1..Len(doc) |-> doc[n].text]

ParseArgs(doc) == [doc |-> doc, lines |-> LinesOf(doc)]

RetrieveComponentStates ==
    /\ q_op = "none"
    /\ \E doc \in Documents(CompItems \cup CompNoiseItems \cup CompBadIndexItems
                                \cup CompOtherTypeItems) :
          /\ q_op' = "retrieve_component_states"
          /\ q_in' = ParseArgs(doc)
          /\ q_out' = retrieve_component_states(LinesOf(doc))
    /\ UNCHANGED <<resultVars, migrateVars, topologyVars, probeVars>>

\* Targets and indices asked for: present ones and ones no line names.
AskedTargets == {LUSTRE, SCRATCH}
AskedIdx     == {0, 3, 7}

IsOstIdxActive ==
    /\ q_op = "none"
    /\ \E doc \in Documents(CompItems \cup CompNoiseItems),
          target \in AskedTargets, idx \in AskedIdx :
          /\ q_op' = "is_ost_idx_active"
          /\ q_in' = [doc |-> doc, lines |-> LinesOf(doc), target |-> target, idx |-> idx]
          /\ q_out' = is_ost_idx_active(target, idx, LinesOf(doc))
    /\ UNCHANGED <<resultVars, migrateVars, topologyVars, probeVars>>

FillSampleIdx     == {0, 3, 9999, 10000}
FillSamplePercent == {7, 100}

\* '<name>_UUID <blocks> <percent>% <mount>[OST:<decimal-index>]'
FillLineText(pct, idx) ==
    LUSTRE \o <<"-">> \o OST \o HexToken(idx, FALSE)
    \o << "_", "U", "U", "I", "D", " ", "1", "0", "0", "0", " " >>
    \o PyStrOfInt(pct) \o << "%", " ", "/", "l", "u", "s", "t", "r", "e" >>
    \o OST_BRACKET \o PyStrOfInt(idx) \o <<"]">>

FillItem(kind, pct, idx, text) == [kind |-> kind, pct |-> pct, idx |-> idx, text |-> text]

FillItems ==
    {FillItem("fill", pct, idx, FillLineText(pct, idx)) :
        pct \in FillSamplePercent, idx \in FillSampleIdx}

\* Lines of 'lfs df' that carry no OST fill level: the header row, an MDT
\* row, the summary row and an empty line.
FillNoiseItems ==
    { FillItem("blank", 0, 0, <<>>),
      FillItem("noise", 0, 0, << "U", "U", "I", "D", " ", "1", "K", "-", "b", "l", "o", "c", "k", "s", " ", "U", "s", "e", "%", " ", "M", "o", "u", "n", "t", "e", "d", " ", "o", "n" >>),
      FillItem("noise", 0, 0, << "l", "u", "s", "t", "r", "e", "-", "M", "D", "T", "0", "0", "0", "0", "_", "U", "U", "I", "D", " ", "1", "0", "0", "0", " ", "7", "%", " ", "/", "l", "u", "s", "t", "r", "e", "[", "M", "D", "T", ":", "0", "]" >>),
      FillItem("noise", 0, 0, << "f", "i", "l", "e", "s", "y", "s", "t", "e", "m", "_", "s", "u", "m", "m", "a", "r", "y", ":", " ", "1", "0", "0", "0", " ", "7", "%", " ", "/", "l", "u", "s", "t", "r", "e" >>) }

FsPaths == {"/lustre", ""}

RetrieveOstDiskUsage ==
    /\ q_op = "none"
    /\ \E doc \in Documents(FillItems \cup FillNoiseItems), fs_path \in FsPaths :
          /\ q_op' = "retrieve_ost_disk_usage"
          /\ q_in' = [doc |-> doc, lines |-> LinesOf(doc), fs_path |-> fs_path]
          /\ q_out' = retrieve_ost_disk_usage(fs_path, LinesOf(doc))
    /\ UNCHANGED <<resultVars, migrateVars, topologyVars, probeVars>>

\* The document of the test of stripe_info: count 1 at index 542.
TestStripeDoc == PyDict([lmm_stripe_count |-> 1, lmm_stripe_offset |-> 542])

\* stripe_info called on its own: the output is that of 'lfs getstripe' or
\* the content of the file given instead of it.
StripeInfoQuery ==
    /\ q_op = "none"
    /\ \E filename \in {TestFilename},
          o \in GetstripeOutcomes(TestFilename) \cup ToolSuccess({TestStripeDoc}) :
          /\ q_op' = "stripe_info"
          /\ q_in' = [filename |-> filename, outcome |-> o]
          /\ q_out' = stripe_info(filename, o)
    /\ UNCHANGED <<resultVars, migrateVars, topologyVars, probeVars>>

NextParse ==
    \/ RetrieveComponentStates
    \/ IsOstIdxActive
    \/ RetrieveOstDiskUsage
    \/ StripeInfoQuery

SpecParse == Init /\ [][NextParse]_vars

(***************************************************************************)
(* Topology resolver: the connection map of 'lctl get_param', name         *)
(* resolution, and the two bulk lookups.  The environment of a call is the *)
(* outcome of the tool (exit status and output lines) and the name service *)
(* (dns): addresses with their hostname, hostnames with their address.     *)
(***************************************************************************)
LCTL == "/usr/sbin/lctl"

\* The literal lit stands at position at of chars.
LiteralAt(chars, lit, at) ==
    /\ at >= 1
    /\ at + Len(lit) - 1 <= Len(chars)
    /\ SubSeq(chars, at, at + Len(lit) - 1) = lit

AllHex(chars, from, to) ==
    to <= Len(chars) /\ \A n \in from..to : IsHexChar(chars[n])

\* _REGEX_STR_OST_CONN_UUID =
\*   osc\..*-OST([0-9a-fA-F]{4})-osc-[0-9a-fA-F]{16}\.ost_conn_uuid=([\d\.]+)@
\* from '-OST' on, with '-OST' at position b.
ConnUuidMatchAt(chars, b) ==
    LET addrFrom == b + 44
        addrEnd  == RunEnd(chars, addrFrom, DecCharSet \cup {"."})
    IN  IF /\ LiteralAt(chars, << "-", "O", "S", "T" >>, b)
           /\ AllHex(chars, b + 4, b + 7)
           /\ LiteralAt(chars, << "-", "o", "s", "c", "-" >>, b + 8)
           /\ AllHex(chars, b + 13, b + 28)
           /\ LiteralAt(chars, << ".", "o", "s", "t", "_", "c", "o", "n", "n", "_", "u", "u", "i", "d", "=" >>,
                        b + 29)
           /\ addrFrom <= Len(chars)
           /\ addrEnd >= addrFrom
           /\ addrEnd + 1 <= Len(chars)
           /\ chars[addrEnd + 1] = "@"
        THEN [matched |-> TRUE,
              ost_idx |-> SubSeq(chars, b + 4, b + 7),
              ip_addr |-> SubSeq(chars, addrFrom, addrEnd)]
        ELSE NoMatch

\* _REGEX_PATTERN_OST_CONN_UUID.search(line): the leftmost 'osc.' that has a
\* match; the greedy '.*' then takes the last '-OST...'.
regex_conn_uuid_search(chars) ==
    LET tails(i) == {b \in (i + 4)..Len(chars) : ConnUuidMatchAt(chars, b).matched}
        starts   == {i \in 1..Len(chars) : LiteralAt(chars, << "o", "s", "c", "." >>, i) /\ tails(i) # {}}
    IN  IF starts = {} THEN NoMatch
        ELSE ConnUuidMatchAt(chars, Max(tails(Min(starts))))

\* d[key] = value of a dictionary that keeps the order in which its keys
\* were first stored; the empty one is [order |-> <<>>, at |-> <<>>].
OrderedPut(d, key, value) ==
    [order |-> IF key \in DOMAIN d.at THEN d.order ELSE Append(d.order, key),
     at    |-> DictPut(d.at, key, value)]

\* The body of the loop of ost_conn_uuid_map (lines 475-489): a blank line
\* is passed over, a line without a match raises.
ConnUuidLine(ost_conn_uuid_dict, line) ==
    IF strip(line) = <<>> THEN Return(ost_conn_uuid_dict)
    ELSE TheOnly({ IF ~match.matched
                   THEN Raise("LfsUtilsError", "No match for ost_conn_uuid on filesystem")
                   ELSE Return(OrderedPut(ost_conn_uuid_dict,
                                          PyIntBase16(match.ost_idx).value,
                                          match.ip_addr)) :
                      match \in {regex_conn_uuid_search(line)} })

RECURSIVE ConnUuidLines(_, _, _)
ConnUuidLines(ost_conn_uuid_dict, lines, n) ==
    IF n > Len(lines) THEN Return(ost_conn_uuid_dict)
    ELSE TheOnly({ IF r.kind = "raised" THEN r
                   ELSE ConnUuidLines(r.value, lines, n + 1) :
                      r \in {ConnUuidLine(ost_conn_uuid_dict, lines[n])} })

\* lctl get_param osc.<fs_name>-OST*-osc-*.ost_conn_uuid
ConnMapArgs(fs_name) ==
    <<LCTL, "get_param", "osc." \o fs_name \o "-OST*-osc-*.ost_conn_uuid">>

\* LfsUtils.ost_conn_uuid_map(fs_name) in an environment: its outcome and
\* the tool invocations it made.
ost_conn_uuid_map(fs_name, env) ==
    IF fs_name = ""
    THEN [out |-> Raise("LfsUtilsError", "Lustre filesystem name is not set"),
          invoked |-> <<>>]
    ELSE [invoked |-> <<ConnMapArgs(fs_name)>>,
          out |-> IF env.rc # 0 THEN Raise("CalledProcessError", "")
                  ELSE TheOnly({ IF r.kind = "returned" /\ r.value.order = <<>>
                                 THEN Raise("LfsUtilsError",
                                            "Lustre ost_conn_uuid_dict is empty")
                                 ELSE r :
                                    r \in {ConnUuidLines([order |-> <<>>, at |-> <<>>], env.lines, 1)} })]

\* LfsUtils.resolve_hostname(addr): socket.gethostbyaddr raises herror for an
\* address without a name and else gives the triple (hostname, aliases,
\* addresses), so of the checks of lines 504-513 the one of the hostname
\* is left.
resolve_hostname(addr, dns) ==
    IF addr = <<>> THEN Raise("RuntimeError", "Parameter addr is empty")
    ELSE IF addr \notin DOMAIN dns.byaddr
    THEN Raise("herror", "Unknown host")
    ELSE IF dns.byaddr[addr] = ""
    THEN Raise("LfsUtilsError", "No hostname found for IP address")
    ELSE Return(dns.byaddr[addr])

\* LfsUtils.resolve_addr(hostname): socket.gethostbyname raises gaierror for
\* a name without an address.
resolve_addr(hostname, dns) ==
    IF hostname = "" THEN Raise("RuntimeError", "Parameter hostname is empty")
    ELSE IF hostname \notin DOMAIN dns.byname
    THEN Raise("gaierror", "Name or service not known")
    ELSE IF dns.byname[hostname] = <<>>
    THEN Raise("LfsUtilsError", "No IP address received")
    ELSE Return(dns.byname[hostname])

GroupAppend_Overwrite(oss_with_ost_list, oss, ost) ==
    DictPut(oss_with_ost_list, oss, <<ost>>)

\* Lines 542-545: the list of a hostname is started when the hostname is
\* new, and the index is appended to it.
GroupAppend(oss_with_ost_list, oss, ost) ==
    IF oss \in DOMAIN oss_with_ost_list
    THEN DictPut(oss_with_ost_list, oss, Append(oss_with_ost_list[oss], ost))
    ELSE DictPut(oss_with_ost_list, oss, <<ost>>)

\* The loop reading the map with a default: an index the map does not have
\* is passed over.
RECURSIVE GroupByOss_SkipAbsent(_, _, _, _, _)
GroupByOss_SkipAbsent(oss_with_ost_list, ost_conn_uuids, rangeset, dns, n) ==
    IF n > Len(rangeset) THEN Return(oss_with_ost_list)
    ELSE IF rangeset[n] \notin DOMAIN ost_conn_uuids.at
    THEN GroupByOss_SkipAbsent(oss_with_ost_list, ost_conn_uuids, rangeset, dns, n + 1)
    ELSE TheOnly({ IF oss.kind = "raised" THEN oss
                   ELSE TheOnly({ GroupByOss_SkipAbsent(grown, ost_conn_uuids, rangeset, dns, n + 1) :
                                     grown \in {GroupAppend(oss_with_ost_list, oss.value,
                                                            rangeset[n])} }) :
                      oss \in {resolve_hostname(ost_conn_uuids.at[rangeset[n]], dns)} })

\* The loop over rangeset.intiter() (lines 538-545): ost_conn_uuids[ost] is
\* a KeyError for an index the map does not have.
RECURSIVE GroupByOss(_, _, _, _, _)
GroupByOss(oss_with_ost_list, ost_conn_uuids, rangeset, dns, n) ==
    IF n > Len(rangeset) THEN Return(oss_with_ost_list)
    ELSE IF rangeset[n] \notin DOMAIN ost_conn_uuids.at
    THEN Raise("KeyError", "ost")
    ELSE TheOnly({ IF oss.kind = "raised" THEN oss
                   ELSE TheOnly({ GroupByOss(grown, ost_conn_uuids, rangeset, dns, n + 1) :
                                     grown \in {GroupAppend(oss_with_ost_list, oss.value,
                                                            rangeset[n])} }) :
                      oss \in {resolve_hostname(ost_conn_uuids.at[rangeset[n]], dns)} })

lookup_oss_by_ost_rangeset_MapPerOst(fs_name, rangeset, env) ==
    TheOnly({ [invoked |-> IF m.invoked = <<>> THEN <<>>
                           ELSE [n \in 1..Len(rangeset) |-> m.invoked[1]],
               out |-> IF m.out.kind = "raised" THEN m.out
                       ELSE GroupByOss(<<>>, m.out.value, rangeset, env.dns, 1)] :
                 m \in {ost_conn_uuid_map(fs_name, env)} })

\* LfsUtils.lookup_oss_by_ost_rangeset: the connection map is fetched once,
\* before the loop; rangeset is the sequence rangeset.intiter() yields.
lookup_oss_by_ost_rangeset(fs_name, rangeset, env) ==
    TheOnly({ [invoked |-> m.invoked,
               out |-> IF m.out.kind = "raised" THEN m.out
                       ELSE GroupByOss(<<>>, m.out.value, rangeset, env.dns, 1)] :
                 m \in {ost_conn_uuid_map(fs_name, env)} })

OstsAt_Any(ost_conn_uuids, addr) == ost_conn_uuids.order

\* [ost for ost, conn_uuid in ost_conn_uuids.items() if conn_uuid == addr]
OstsAt(ost_conn_uuids, addr) ==
    SelectSeq(ost_conn_uuids.order, LAMBDA ost : ost_conn_uuids.at[ost] = addr)

\* The loop over the nodes (lines 555-557): resolve_addr(node) is called for
\* the items of the map, which is never empty here, so its exception leaves
\* the lookup.
RECURSIVE OstsByNode(_, _, _, _, _)
OstsByNode(oss_with_ost_list, ost_conn_uuids, nodeset, dns, n) ==
    IF n > Len(nodeset) THEN Return(oss_with_ost_list)
    ELSE TheOnly({ IF addr.kind = "raised" THEN addr
                   ELSE TheOnly({ OstsByNode(grown, ost_conn_uuids, nodeset, dns, n + 1) :
                                     grown \in {DictPut(oss_with_ost_list, nodeset[n],
                                                        OstsAt(ost_conn_uuids, addr.value))} }) :
                      addr \in {resolve_addr(nodeset[n], dns)} })

\* LfsUtils.lookup_ost_by_oss_nodeset: the connection map is fetched once,
\* before the loop; nodeset is the sequence of its hostnames.
lookup_ost_by_oss_nodeset(fs_name, nodeset, env) ==
    TheOnly({ [invoked |-> m.invoked,
               out |-> IF m.out.kind = "raised" THEN m.out
                       ELSE OstsByNode(<<>>, m.out.value, nodeset, env.dns, 1)] :
                 m \in {ost_conn_uuid_map(fs_name, env)} })

(***************************************************************************)
(* The topology resolver as a specification: up to MaxCalls bulk lookups   *)
(* one after the other on one filesystem in one environment.  t_calls      *)
(* keeps the calls with their outcome, t_log the tool invocations with the *)
(* number of the call that made them.                                      *)
(***************************************************************************)
MaxCalls == 2     \* bulk lookups per behaviour

ADDR1 == << "1", "0", ".", "2", "0", ".", "3", ".", "1" >>
ADDR2 == << "1", "0", ".", "2", "0", ".", "3", ".", "2" >>
ADDR3 == << "1", "0", ".", "2", "0", ".", "3", ".", "3" >>

\* 'osc.<fs>-OST<hex>-osc-<device>.ost_conn_uuid=<address>@<network>'
ConnLineText(idx, upper, addr) ==
    << "o", "s", "c", ".", "l", "u", "s", "t", "r", "e", "-", "O", "S", "T" >> \o HexToken(idx, upper)
    \o << "-", "o", "s", "c", "-", "f", "f", "f", "f", "8", "a", "0", "b", "5", "c", "6", "d", "7", "0", "0", "0", ".", "o", "s", "t", "_", "c", "o", "n", "n", "_", "u", "u", "i", "d", "=" >>
    \o addr \o << "@", "o", "2", "i", "b" >>

ConnItem(kind, idx, addr, text) == [kind |-> kind, idx |-> idx, addr |-> addr, text |-> text]

ConnLine(idx, upper, addr) == ConnItem("conn", idx, addr, ConnLineText(idx, upper, addr))

\* Outputs of the tool: three OSTs on two servers; a blank line and an
\* index in uppercase; no line at all; a line of another shape.
ConnDocs ==
    { << ConnLine(0, FALSE, ADDR1), ConnLine(1, FALSE, ADDR2), ConnLine(10, FALSE, ADDR1) >>,
      << ConnLine(0, FALSE, ADDR1), ConnItem("blank", 0, <<>>, <<>>),
         ConnLine(10, TRUE, ADDR2) >>,
      << ConnItem("blank", 0, <<>>, <<>>) >>,
      << ConnLine(0, FALSE, ADDR1),
         ConnItem("noise", 0, <<>>, << "e", "r", "r", "o", "r", ":", " ", "g", "e", "t", "_", "p", "a", "r", "a", "m", ":", " ", "p", "a", "r", "a", "m", "_", "p", "a", "t", "h" >>) >> }

\* Name services: every address with its own host; two addresses of one
\* host; an address without a name.
DnsTables ==
    { [byaddr |-> [a \in {ADDR1, ADDR2} |-> IF a = ADDR1 THEN "oss1" ELSE "oss2"],
       byname |-> [h \in {"oss1", "oss2", "oss3"} |->
                      IF h = "oss1" THEN ADDR1 ELSE IF h = "oss2" THEN ADDR2 ELSE ADDR3]],
      [byaddr |-> [a \in {ADDR1, ADDR2} |-> "oss1"],
       byname |-> [h \in {"oss1"} |-> ADDR1]],
      [byaddr |-> [a \in {ADDR1} |-> "oss1"],
       byname |-> [h \in {"oss1"} |-> ADDR1]] }

TopoEnv(rc, doc, dns) == [rc |-> rc, doc |-> doc, lines |-> LinesOf(doc), dns |-> dns]

TopoEnvs ==
    {TopoEnv(0, doc, dns) : doc \in ConnDocs, dns \in DnsTables}
    \cup {TopoEnv(1, <<>>, dns) : dns \in DnsTables}

FsNames     == {"lustre", ""}
TopoRanges  == {<<>>, <<0>>, <<0, 10>>, <<0, 1, 10>>, <<0, 7>>}
TopoNodesets == {<<"oss1">>, <<"oss1", "oss2">>, <<"oss3">>, <<"oss9">>}

\* Later calls of a behaviour are on the filesystem and in the environment
\* of the first.
SameSetting(fs_name, env) ==
    IF t_calls = <<>> THEN TRUE
    ELSE fs_name = t_calls[1].fs_name /\ env = t_calls[1].env

TopoCall(op, fs_name, arg, env, out) ==
    [op |-> op, fs_name |-> fs_name, arg |-> arg, env |-> env, out |-> out]

Logged(invoked) ==
    [n \in 1..Len(invoked) |-> [call |-> Len(t_calls) + 1, args |-> invoked[n]]]

LookupOssByOstRangeset ==
    /\ Len(t_calls) < MaxCalls
    /\ \E fs_name \in FsNames, rangeset \in TopoRanges, env \in TopoEnvs :
          /\ SameSetting(fs_name, env)
          /\ \E r \in {lookup_oss_by_ost_rangeset(fs_name, rangeset, env)} :
                /\ t_calls' = Append(t_calls, TopoCall("lookup_oss_by_ost_rangeset",
                                                       fs_name, rangeset, env, r.out))
                /\ t_log' = t_log \o Logged(r.invoked)
    /\ UNCHANGED <<resultVars, migrateVars, queryVars, probeVars>>

LookupOstByOssNodeset ==
    /\ Len(t_calls) < MaxCalls
    /\ \E fs_name \in FsNames, nodeset \in TopoNodesets, env \in TopoEnvs :
          /\ SameSetting(fs_name, env)
          /\ \E r \in {lookup_ost_by_oss_nodeset(fs_name, nodeset, env)} :
                /\ t_calls' = Append(t_calls, TopoCall("lookup_ost_by_oss_nodeset",
                                                       fs_name, nodeset, env, r.out))
                /\ t_log' = t_log \o Logged(r.invoked)
    /\ UNCHANGED <<resultVars, migrateVars, queryVars, probeVars>>

\* A direct call of ost_conn_uuid_map; it has no argument but the filesystem.
OstConnUuidMap ==
    /\ Len(t_calls) < MaxCalls
    /\ \E fs_name \in FsNames, env \in TopoEnvs :
          /\ SameSetting(fs_name, env)
          /\ \E r \in {ost_conn_uuid_map(fs_name, env)} :
                /\ t_calls' = Append(t_calls, TopoCall("ost_conn_uuid_map",
                                                       fs_name, <<>>, env, r.out))
                /\ t_log' = t_log \o Logged(r.invoked)
    /\ UNCHANGED <<resultVars, migrateVars, queryVars, probeVars>>

NextTopology == LookupOssByOstRangeset \/ LookupOstByOssNodeset \/ OstConnUuidMap

SpecTopology == Init /\ [][NextTopology]_vars

(***************************************************************************)
(* Claims about the index codec (checked under SpecCodec).                 *)
(***************************************************************************)
InIndexRange(n) == n >= MIN_OST_INDEX /\ n <= MAX_OST_INDEX

\* C11: for every index i of [0, 65535], decoding to_ost_hex(i) as a base-16
\* integer (int(text, 16), the decoding of OST names and of connection
\* identifier lines) gives i.
C11_HexRoundTrip ==
    (q_op = "to_ost_hex" /\ InIndexRange(q_in.ost)) =>
        /\ q_out.kind = "returned"
        /\ PyIntBase16(q_out.value) = Return(q_in.ost)

\* Index 28 is encoded as 001c, which decodes to 28.
C11_Witness ==
    /\ q_op = "to_ost_hex"
    /\ q_in.ost = 28
    /\ q_out = Return(<<"0", "0", "1", "c">>)

\* C12: to_ost_hex gives exactly four lowercase hexadecimal digits for every
\* integer of [0, 65535] (12 gives '000c') and raises an error for every
\* integer below 0 or above 65535, -1 and 65536 included.
C12_FourLowercaseDigitsOrError ==
    q_op = "to_ost_hex" =>
        IF InIndexRange(q_in.ost)
        THEN /\ q_out.kind = "returned"
             /\ Len(q_out.value) = 4
             /\ \A n \in 1..4 : q_out.value[n] \in HexLowerCharSet
             /\ q_in.ost = 12 => q_out.value = <<"0", "0", "0", "c">>
        ELSE q_out.kind = "raised" /\ q_out.exc = "LfsUtilsError"

\* The neighbour 65536 of the upper boundary has been rejected.
C12_Witness ==
    /\ q_op = "to_ost_hex"
    /\ q_in.ost = MAX_OST_INDEX + 1
    /\ q_out.kind = "raised"

WellFormedItems(items) ==
    \A n \in 1..Len(items) : items[n].kind \in {"single", "range"}

\* The indices the items of a specification cover.
Covered(items) == UNION {items[n].lo .. items[n].hi : n \in 1..Len(items)}

StrictlyAscending(seq) == \A n \in 1..(Len(seq) - 1) : seq[n] < seq[n + 1]

\* C13: for a comma-separated list of four-digit hexadecimal tokens and
\* token-token ranges (either case, optional blanks), create_rangeset_from_hex
\* yields exactly the ascending, deduplicated decimal indices the tokens and
\* ranges cover; '0000, 00FF, ff00-FF10, dd23' yields 0, 255, 56611 and
\* 65280..65296.
C13_HexRangesExpand ==
    (q_op = "create_rangeset_from_hex" /\ WellFormedItems(q_in.items)) =>
        /\ q_out.kind = "returned"
        /\ StrictlyAscending(q_out.value)
        /\ Range(q_out.value) = Covered(q_in.items)
        /\ (q_in.items = ExampleHexItems /\ q_in.spaced) =>
              /\ q_in.text = << "0", "0", "0", "0", ",", " ", "0", "0", "F", "F", ",", " ",
                                "f", "f", "0", "0", "-", "F", "F", "1", "0", ",", " ",
                                "d", "d", "2", "3" >>
              /\ q_out.value = <<0, 255, 56611>> \o [n \in 1..17 |-> 65279 + n]

\* The documented example has been expanded to its 20 indices.
C13_Witness ==
    /\ q_op = "create_rangeset_from_hex"
    /\ q_in.items = ExampleHexItems
    /\ q_in.spaced
    /\ q_out.kind = "returned"
    /\ Len(q_out.value) = 20

\* C14: range expansion rejects, with a validation error, every range
\* specification (decimal or hexadecimal) that covers an index below 0 or
\* above 65535: no index outside [0, 65535] is in an expanded set.
C14_ExpansionWithinIndexRange ==
    (q_op \in {"create_rangeset_from_hex", "RangeSet"} /\ q_out.kind = "returned") =>
        \A n \in 1..Len(q_out.value) : InIndexRange(q_out.value[n])

(***************************************************************************)
(* Claims about the output parsers (checked under SpecParse).              *)
(***************************************************************************)
\* The lines of a document that are component lines of a target and type.
CompLinesOf(doc, target, type_) ==
    {n \in 1..Len(doc) : /\ doc[n].kind = "component"
                         /\ doc[n].target = target
                         /\ doc[n].type = type_}

SeenTargets(doc) ==
    {doc[n].target : n \in {m \in 1..Len(doc) : doc[m].kind = "component"}}

SeenIdx(doc, target, type_) == {doc[n].idx : n \in CompLinesOf(doc, target, type_)}

\* The last line of a document that names a component.
LastLineOf(doc, target, type_, idx) ==
    Max({n \in CompLinesOf(doc, target, type_) : doc[n].idx = idx})

SubMapAgrees(map, doc, target, type_) ==
    /\ DOMAIN map = SeenIdx(doc, target, type_)
    /\ Cardinality(DOMAIN map) = Cardinality(SeenIdx(doc, target, type_))
    /\ \A idx \in DOMAIN map :
          LET item == doc[LastLineOf(doc, target, type_, idx)]
          IN  /\ map[idx].idx = idx
              /\ map[idx].target = target
              /\ map[idx].type = type_
              /\ map[idx].state = item.state
              /\ map[idx].active = (item.state = ACTIVE)

\* C15: retrieve_component_states returns one collection per filesystem name
\* seen; every well-formed line '<target>-<OST|MDT><hex-index>-<suffix>
\* <state>.' gives one entry in the OST or MDT sub-map of its target, by its
\* type, under the decimal value of its hex index, active exactly when the
\* state is 'active'; the sub-maps have one entry per distinct index.
C15_ComponentStatesParsed ==
    (/\ q_op = "retrieve_component_states"
     /\ \A n \in 1..Len(q_in.doc) : q_in.doc[n].kind # "badindex") =>
        /\ q_out.kind = "returned"
        /\ DOMAIN q_out.value = SeenTargets(q_in.doc)
        /\ \A target \in DOMAIN q_out.value :
              /\ SubMapAgrees(q_out.value[target].osts, q_in.doc, target, OST)
              /\ SubMapAgrees(q_out.value[target].mdts, q_in.doc, target, MDT)

\* OST 0 of lustre is active, OST 3 of lustrefs2 is not (the cases of the
\* test), each in the collection of its own filesystem.
C15_Witness ==
    /\ q_op = "retrieve_component_states"
    /\ q_out.kind = "returned"
    /\ DOMAIN q_out.value = {LUSTRE, LUSTREFS2}
    /\ DOMAIN q_out.value[LUSTRE].osts = {0}
    /\ q_out.value[LUSTRE].osts[0].active
    /\ DOMAIN q_out.value[LUSTREFS2].osts = {3}
    /\ ~q_out.value[LUSTREFS2].osts[3].active

\* The OST asked for is named by a line of the document.
AskedPresent ==
    \E n \in CompLinesOf(q_in.doc, q_in.target, OST) : q_in.doc[n].idx = q_in.idx

\* C16: is_ost_idx_active for a filesystem or an OST index that is not in
\* the parsed component states ends in a lookup error, never in False; it
\* returns False only for an OST that is present with a state other than
\* 'active'.
C16_AbsentIsLookupFailure ==
    q_op = "is_ost_idx_active" =>
        IF AskedPresent
        THEN q_out = Return(q_in.doc[LastLineOf(q_in.doc, q_in.target, OST, q_in.idx)].state
                            = ACTIVE)
        ELSE q_out.kind = "raised" /\ q_out.exc = "KeyError"

\* Index 7 of lustre was asked for in a document that names other OSTs of
\* lustre only, and the call raised.
C16_Witness ==
    /\ q_op = "is_ost_idx_active"
    /\ q_in.target = LUSTRE
    /\ q_in.idx = 7
    /\ CompLinesOf(q_in.doc, LUSTRE, OST) # {}
    /\ q_out.kind = "raised"

FillLinesOf(doc) == {n \in 1..Len(doc) : doc[n].kind = "fill"}

\* C17: retrieve_ost_disk_usage returns a map with exactly one entry per
\* distinct OST index of a line '<percent>% ... [OST:<decimal-index>]',
\* giving that line's percentage (the last such line's, when an index is
\* repeated); other lines are ignored; with no such line, or an empty
\* filesystem path, the call raises LfsUtilsError.
C17_FillLevelPerIndex ==
    q_op = "retrieve_ost_disk_usage" =>
        IF q_in.fs_path = "" \/ FillLinesOf(q_in.doc) = {}
        THEN q_out.kind = "raised" /\ q_out.exc = "LfsUtilsError"
        ELSE /\ q_out.kind = "returned"
             /\ DOMAIN q_out.value = {q_in.doc[n].idx : n \in FillLinesOf(q_in.doc)}
             /\ \A idx \in DOMAIN q_out.value :
                   q_out.value[idx] =
                       q_in.doc[Max({n \in FillLinesOf(q_in.doc) :
                                        q_in.doc[n].idx = idx})].pct

\* C18: stripe_info returns a StripeInfo only when the output has both
\* lmm_stripe_count and lmm_stripe_offset, with these values as count and
\* index; when a key is missing it raises LfsUtilsError.
C18_BothKeysOrParseError ==
    (q_op = "stripe_info" /\ q_in.outcome.rc = 0) =>
        LET fields == q_in.outcome.doc
        IN  IF /\ fields # None
               /\ {LMM_STRIPE_COUNT, LMM_STRIPE_OFFSET} \subseteq DOMAIN fields.d
            THEN q_out = Return(StripeInfo(q_in.filename, fields.d.lmm_stripe_count,
                                           PyInt(fields.d.lmm_stripe_offset)))
            ELSE q_out.kind = "raised" /\ q_out.exc = "LfsUtilsError"

(***************************************************************************)
(* Claims about the topology resolver (checked under SpecTopology).        *)
(***************************************************************************)
ConnLinesOf(doc) == {n \in 1..Len(doc) : doc[n].kind = "conn"}

\* The tool gave a connection map: it exited with 0, and its output has a
\* connection line and no line of another shape.
MapGiven(env) ==
    /\ env.rc = 0
    /\ ConnLinesOf(env.doc) # {}
    /\ \A n \in 1..Len(env.doc) : env.doc[n].kind # "noise"

MapIdx(doc) == {doc[n].idx : n \in ConnLinesOf(doc)}

\* The address of an index: that of the last line that names it.
AddrOf(doc, idx) == doc[Max({n \in ConnLinesOf(doc) : doc[n].idx = idx})].addr

\* The places <<hostname, position>> of a grouping where an index is listed.
PlacesOf(grouping, ost) ==
    {p \in UNION {{<<h, k>> : k \in 1..Len(grouping[h])} : h \in DOMAIN grouping} :
        grouping[p[1]][p[2]] = ost}

IsPartitionByHost(grouping, rangeset, env) ==
    /\ \A n \in 1..Len(rangeset) : Cardinality(PlacesOf(grouping, rangeset[n])) = 1
    /\ \A h \in DOMAIN grouping :
          /\ grouping[h] # <<>>
          /\ \A k \in 1..Len(grouping[h]) :
                /\ grouping[h][k] \in Range(rangeset)
                /\ env.dns.byaddr[AddrOf(env.doc, grouping[h][k])] = h

\* C19: for a range set whose indices are all in the connection map,
\* lookup_oss_by_ost_rangeset returns a partition of the range by hostname:
\* every index of the range is in exactly one list, exactly once; no other
\* index is listed; no list is empty; every index is under the hostname its
\* address resolves to.  When all the addresses resolve, the call returns.
C19_RangeLookupPartitions ==
    \A c \in 1..Len(t_calls) :
        (/\ t_calls[c].op = "lookup_oss_by_ost_rangeset"
         /\ t_calls[c].fs_name # ""
         /\ MapGiven(t_calls[c].env)
         /\ Range(t_calls[c].arg) \subseteq MapIdx(t_calls[c].env.doc)) =>
            /\ t_calls[c].out.kind = "returned" =>
                  IsPartitionByHost(t_calls[c].out.value, t_calls[c].arg, t_calls[c].env)
            /\ (\A ost \in Range(t_calls[c].arg) :
                   AddrOf(t_calls[c].env.doc, ost) \in DOMAIN t_calls[c].env.dns.byaddr) =>
                  t_calls[c].out.kind = "returned"

\* The range 0, 1, 10 has been grouped under two servers.
C19_Witness ==
    \E c \in 1..Len(t_calls) :
        /\ t_calls[c].op = "lookup_oss_by_ost_rangeset"
        /\ t_calls[c].arg = <<0, 1, 10>>
        /\ t_calls[c].out.kind = "returned"
        /\ DOMAIN t_calls[c].out.value = {"oss1", "oss2"}
        /\ t_calls[c].out.value["oss1"] = <<0, 10>>
        /\ t_calls[c].out.value["oss2"] = <<1>>

InvocationsOf(c) == {n \in 1..Len(t_log) : t_log[n].call = c}

\* C20: every call of a bulk topology query on a filesystem invokes the
\* tool for the connection map exactly once, whatever the number of indices
\* or hostnames, and a later call invokes it again (a call without a
\* filesystem name is rejected before the tool is invoked).
C20_OneMapFetchPerCall ==
    \A c \in 1..Len(t_calls) :
        IF t_calls[c].fs_name = "" THEN InvocationsOf(c) = {}
        ELSE /\ Cardinality(InvocationsOf(c)) = 1
             /\ \A n \in InvocationsOf(c) : t_log[n].args = ConnMapArgs(t_calls[c].fs_name)

\* Two lookups, of three indices and of two hostnames, have returned, and the
\* tool has been invoked twice.
C20_Witness ==
    /\ Len(t_calls) = 2
    /\ t_calls[1].op = "lookup_oss_by_ost_rangeset"
    /\ Len(t_calls[1].arg) = 3
    /\ t_calls[1].out.kind = "returned"
    /\ t_calls[2].op = "lookup_ost_by_oss_nodeset"
    /\ Len(t_calls[2].arg) = 2
    /\ t_calls[2].out.kind = "returned"
    /\ Len(t_log) = 2

\* No element is twice in the sequence.
NoRepeats(seq) == Cardinality(Range(seq)) = Len(seq)

\* C21: lookup_ost_by_oss_nodeset returns a map with exactly one key per
\* hostname of the node set; the value of a hostname is the list of exactly
\* the indices of the connection map whose address is the address the
\* hostname resolves to, empty when it owns no OST.  When the map is given
\* and all hostnames resolve, the call returns.
C21_NodesetLookupByAddress ==
    \A c \in 1..Len(t_calls) :
        (/\ t_calls[c].op = "lookup_ost_by_oss_nodeset"
         /\ t_calls[c].fs_name # ""
         /\ MapGiven(t_calls[c].env)) =>
            /\ t_calls[c].out.kind = "returned" =>
                  /\ DOMAIN t_calls[c].out.value = Range(t_calls[c].arg)
                  /\ \A h \in Range(t_calls[c].arg) :
                        /\ NoRepeats(t_calls[c].out.value[h])
                        /\ Range(t_calls[c].out.value[h]) =
                              {ost \in MapIdx(t_calls[c].env.doc) :
                                  AddrOf(t_calls[c].env.doc, ost) =
                                      t_calls[c].env.dns.byname[h]}
            /\ (Range(t_calls[c].arg) \subseteq DOMAIN t_calls[c].env.dns.byname) =>
                  t_calls[c].out.kind = "returned"

\* Two servers have been given their OSTs, and a server that owns none an
\* empty list.
C21_Witness ==
    /\ Len(t_calls) = 2
    /\ t_calls[1].op = "lookup_ost_by_oss_nodeset"
    /\ t_calls[1].out.kind = "returned"
    /\ DOMAIN t_calls[1].out.value = {"oss1", "oss2"}
    /\ t_calls[1].out.value["oss1"] = <<0, 10>>
    /\ t_calls[1].out.value["oss2"] = <<1>>
    /\ t_calls[2].op = "lookup_ost_by_oss_nodeset"
    /\ t_calls[2].out = Return([h \in {"oss3"} |-> <<>>])

(***************************************************************************)
(* Further claims about the output parsers (checked under SpecParse).      *)
(***************************************************************************)
\* C22: when a line of the component-check output names a component of a
\* type other than OST or MDT, retrieve_component_states raises for the whole
\* parse and returns no collections.
C22_UnknownTypeIsFatal ==
    (/\ q_op = "retrieve_component_states"
     /\ \E n \in 1..Len(q_in.doc) : q_in.doc[n].kind = "othertype") =>
        q_out.kind = "raised"

\* A document without its lines that are not of the expected shape.
WithoutMalformed(doc) ==
    SelectSeq(doc, LAMBDA item : item.kind \in {"component", "blank"})

\* C27: a non-blank line of retrieve_component_states that is not of the
\* expected shape (a component name whose index is not hexadecimal
\* included) is skipped: the result is the result of parsing the document
\* without that line.
C27_MalformedLineSkipped ==
    q_op = "retrieve_component_states" =>
        q_out = retrieve_component_states(LinesOf(WithoutMalformed(q_in.doc)))

\* C23: ost_conn_uuid_map fails exactly when no record is produced: output
\* of the tool without a matching line is an LfsUtilsError, and output with
\* at least one connection line returns the map {index -> address} of its
\* connection lines, lines of another shape being skipped.
C23_FailsExactlyWhenNoRecord ==
    \A c \in 1..Len(t_calls) :
        (/\ t_calls[c].op = "ost_conn_uuid_map"
         /\ t_calls[c].fs_name # ""
         /\ t_calls[c].env.rc = 0) =>
            IF ConnLinesOf(t_calls[c].env.doc) = {}
            THEN t_calls[c].out.kind = "raised" /\ t_calls[c].out.exc = "LfsUtilsError"
            ELSE /\ t_calls[c].out.kind = "returned"
                 /\ t_calls[c].out.value.at =
                       [ost \in MapIdx(t_calls[c].env.doc) |-> AddrOf(t_calls[c].env.doc, ost)]

(***************************************************************************)
(* Claims about the external calls of migrate_file (checked under          *)
(* SpecMigrate).                                                           *)
(***************************************************************************)
\* C24: the external calls of migrate_file occur in the order pre-move
\* stripe query, relocation command, post-move stripe query; the relocation
\* command is invoked at most once, only after a successful pre-move query
\* and never when the outcome is SKIPPED or IGNORED; the post-move query is
\* issued only after a relocation that exited with status zero.
C24_CallOrder ==
    /\ Len(calls) <= 3
    /\ Len(calls) >= 1 => calls[1].cmd = "getstripe"
    /\ Len(calls) >= 2 => (calls[2].cmd = "migrate" /\ QueryOk(calls[1]))
    /\ Len(calls) >= 3 => (calls[3].cmd = "getstripe" /\ calls[2].rc = 0)
    /\ Cardinality({n \in 1..Len(calls) : calls[n].cmd = "migrate"}) <= 1
    /\ (ReturnedState(SKIPPED) \/ ReturnedState(IGNORED)) => ~InvokedCmd("migrate")
    /\ (Done /\ InvokedCmd("migrate") /\ calls[2].rc # 0) => Len(calls) = 2

\* A call has made its three external calls and has returned its result.
C24_Witness ==
    /\ Returned
    /\ Len(calls) = 3
    /\ calls[1].cmd = "getstripe"
    /\ calls[2].cmd = "migrate"
    /\ calls[3].cmd = "getstripe"

\* C25: the relocation command is never invoked with a target index
\* outside [0, 65535]: a call with a target_idx below 0 or above 65535 ends
\* without running the relocation command.
C25_TargetInRangeWhenRelocating ==
    \A n \in 1..Len(calls) :
        (calls[n].cmd = "migrate" /\ call.target_idx # None) =>
            /\ InRange(call.target_idx)
            /\ \E k \in 1..(Len(calls[n].args) - 1) :
                   /\ calls[n].args[k] = "-i"
                   /\ calls[n].args[k + 1] = IntStr(call.target_idx.i)

\* The relocation command exited with status zero and the post-move query
\* failed: nonzero exit, empty output or a document lacking a stripe key.
PostQueryFailed ==
    /\ Len(calls) = 3
    /\ calls[2].cmd = "migrate" /\ calls[2].rc = 0
    /\ ~QueryOk(calls[3])

\* C26: when the relocation command exits with status zero and the
\* post-move stripe query fails, migrate_file returns FAILED with the
\* underlying message, neither raising nor reporting SUCCESS or DISPLACED,
\* and the result keeps the pre-move index as source.
C26_PostQueryFailureIsFailed ==
    (Done /\ Step1Valid(call) /\ PostQueryFailed) =>
        /\ ReturnedState(FAILED)
        /\ Len(mig_out.value.fields) = 6
        /\ mig_out.value.fields[6] # ""
        /\ mig_out.value.fields[4] = ToString(FileIndex)

\* C28: create_rangeset_from_hex fails the whole expansion, returning no
\* set, for a specification with a malformed token: a hexadecimal token of
\* five digits, or a token with a character that is no hexadecimal digit.
C28_MalformedTokenFailsExpansion ==
    (/\ q_op = "create_rangeset_from_hex"
     /\ \E n \in 1..Len(q_in.items) : q_in.items[n].kind \in {"long", "nonhex"}) =>
        q_out.kind = "raised"

\* C29: lookup_oss_by_ost_rangeset called with a range that has an index
\* absent from the connection map ends in a lookup failure: it returns no
\* grouping, neither a partial one nor one that omits the absent index.  The
\* failure is the KeyError of the absent index when the addresses of the
\* indices before it resolve.
C29_AbsentIndexFailsLookup ==
    \A c \in 1..Len(t_calls) :
        (/\ t_calls[c].op = "lookup_oss_by_ost_rangeset"
         /\ t_calls[c].fs_name # ""
         /\ MapGiven(t_calls[c].env)
         /\ ~(Range(t_calls[c].arg) \subseteq MapIdx(t_calls[c].env.doc))) =>
            /\ t_calls[c].out.kind = "raised"
            /\ (\A ost \in Range(t_calls[c].arg) \cap MapIdx(t_calls[c].env.doc) :
                   AddrOf(t_calls[c].env.doc, ost) \in DOMAIN t_calls[c].env.dns.byaddr) =>
                  t_calls[c].out.exc = "KeyError"

\* The range 0, 7 has been looked up in a map that has no index 7, and the
\* lookup has failed.
C29_Witness ==
    \E c \in 1..Len(t_calls) :
        /\ t_calls[c].op = "lookup_oss_by_ost_rangeset"
        /\ t_calls[c].arg = <<0, 7>>
        /\ MapGiven(t_calls[c].env)
        /\ 0 \in MapIdx(t_calls[c].env.doc)
        /\ t_calls[c].out = Raise("KeyError", "ost")

(***************************************************************************)
(* The write probe, LfsUtils.is_ost_writable: a file is created with its   *)
(* stripe on one OST and the index is read back.  'lfs setstripe' creates  *)
(* the file when it exits with status zero.                                *)
(***************************************************************************)
ProbeFilename == "probe.tmp"

SetstripeOutcomes == ToolFailures \cup ToolSuccess({None})

SetstripeArgs(file_path, idx) == <<LFS, "setstripe", "-i", IntStr(idx), file_path>>

\* LfsUtils.set_ost_file_stripe(file_path, idx) run against the tool
\* outcome o.
set_ost_file_stripe(file_path, idx, o) ==
    IF ~isinstance(file_path, "str") \/ file_path = PyStr("")
    THEN Raise("LfsUtilsError", "File path must be set and type of str")
    ELSE IF idx = None \/ ~isinstance(idx, "int")
    THEN Raise("LfsUtilsError", "Index must be set and type of int")
    ELSE subprocess_run(o)

ProbeEnd(out, exist, invoked) == [out |-> out, files |-> exist, invoked |-> invoked]

\* The try block of is_ost_writable (lines 575-589) with the return of line
\* 591: every exception is logged and gives False.
ProbeStripe(ost, file_path, exist, set_o, get_o) ==
    TheOnly({ IF set.kind = "raised"
              THEN ProbeEnd(Return(FALSE), exist,
                            IF file_path = PyStr("") THEN <<>>
                            ELSE <<SetstripeArgs(file_path.s, ost.i)>>)
              ELSE TheOnly({ ProbeEnd(Return(info.kind = "returned" /\ info.value.index = ost),
                                      IF info.kind = "returned" /\ info.value.index = ost
                                      THEN exist \ {file_path.s}
                                      ELSE exist \cup {file_path.s},
                                      <<SetstripeArgs(file_path.s, ost.i),
                                        GetstripeArgs(file_path.s)>>) :
                                info \in {stripe_info(file_path.s, get_o)} }) :
                 set \in {set_ost_file_stripe(file_path, ost, set_o)} })

\* LfsUtils.is_ost_writable(ost, file_path) on a filesystem where the paths
\* of exist exist: its outcome, the paths that exist after it and the tool
\* invocations it made.
is_ost_writable(ost, file_path, exist, set_o, get_o) ==
    IF file_path = None
    THEN ProbeEnd(Raise("LfsUtilsError", "File path must be set."), exist, <<>>)
    ELSE IF ost = None
    THEN ProbeEnd(Raise("LfsUtilsError", "OST index must be set."), exist, <<>>)
    ELSE IF ost.i < MIN_OST_INDEX \/ ost.i > MAX_OST_INDEX
    THEN ProbeEnd(Raise("LfsUtilsError", "OST index invalid"), exist, <<>>)
    ELSE IF file_path.s \in exist
    THEN ProbeEnd(Raise("LfsUtilsError", "File already exists"), exist, <<>>)
    ELSE ProbeStripe(ost, file_path, exist, set_o, get_o)

ProbeArgs(ost, file_path, existed, set_o, get_o) ==
    [ost |-> ost, file_path |-> file_path, existed |-> existed,
     setstripe |-> set_o, getstripe |-> get_o]

\* Another process creates the path before the probe.
CreateFile ==
    /\ q_op = "none"
    /\ files = {}
    /\ files' = {ProbeFilename}
    /\ UNCHANGED <<resultVars, migrateVars, queryVars, topologyVars>>

IsOstWritable ==
    /\ q_op = "none"
    /\ \E ost \in {None} \cup {PyInt(n) : n \in CallerIdx},
          file_path \in {None, PyStr(""), PyStr(ProbeFilename)},
          set_o \in SetstripeOutcomes, get_o \in GetstripeOutcomes(ProbeFilename) :
          \E r \in {is_ost_writable(ost, file_path, files, set_o, get_o)} :
             /\ q_op' = "is_ost_writable"
             /\ q_in' = ProbeArgs(ost, file_path,
                                  IF file_path = None THEN FALSE ELSE file_path.s \in files,
                                  set_o, get_o)
             /\ q_out' = r.out
             /\ files' = r.files
    /\ UNCHANGED <<resultVars, migrateVars, topologyVars>>

NextProbe == CreateFile \/ IsOstWritable

SpecProbe == Init /\ [][NextProbe]_vars

\* The stripe was set and the index read back is the requested one.
ReadBackIs(o_set, o_get, ost) ==
    /\ o_set.rc = 0
    /\ o_get.rc = 0
    /\ o_get.doc # None
    /\ {LMM_STRIPE_COUNT, LMM_STRIPE_OFFSET} \subseteq DOMAIN o_get.doc.d
    /\ o_get.doc.d.lmm_stripe_offset = ost.i

\* C30: is_ost_writable returns True only if the stripe was set on the
\* probe file and the index read back is the requested OST, and after every
\* return, True or False, the probe file, which did not exist before the
\* call, does not exist.
C30_ProbeLeavesNoFile ==
    (q_op = "is_ost_writable" /\ q_out.kind = "returned") =>
        /\ q_out.value => ReadBackIs(q_in.setstripe, q_in.getstripe, q_in.ost)
        /\ ~q_in.existed => q_in.file_path.s \notin files

====
